---- MODULE Spec2Model ----
(***************************************************************************)
(* unifi-rpc: the header-addressed power-control RPC gateway.              *)
(*                                                                         *)
(* Text (header values) is modelled as sequences of one-character strings, *)
(* so that trimming and decimal parsing are computed, not assumed.         *)
(***************************************************************************)
EXTENDS Integers, Sequences, FiniteSets, TLC

VARIABLES
    hdrIn,      \* GetPort: the X-Port header value handed to models.GetPort
    hdrOut,     \* GetPort: what GetPort returned for hdrIn
    hdrDone,    \* GetPort: TRUE once GetPort has been applied to hdrIn
    variant,    \* which build serves: "ssh" (SSH-CLI) or "controller"
    running,    \* the server process is alive (log.Fatalf ends it)
    phase,      \* "idle": waiting for a request; "responded": the handler
                \* of one has returned, or has ended the process
    req,        \* the request being handled (headers and decoded body)
    resp,       \* what the handler wrote to the http.ResponseWriter
    bodyRead,   \* the handler called json.NewDecoder(r.Body).Decode
    calls,      \* backend calls the handler made for this request, in order
    poePwr,     \* SSH backend: the switch's PoE power flag of each port
    globalMacAddress,  \* controller variant: rpcService.globalMacAddress
    PortOverrides,     \* controller backend: the device's port overrides
    cliCall,    \* SSH client: the call in hand (method, port, state)
    cliStatus,  \* SSH client: the status parsed from the switch's output
    cliOut,     \* SSH client: what the call returned and the commands it
                \* handed to executeCommand
    lazy,       \* controller client (lazyClient): once fired, initErr, the
                \* jar holding a TOKEN cookie, the base URL being valid
    lazyCall,   \* controller client: the call in hand (method, MAC, port)
    lazyOut,    \* controller client: the error the call returned, and the
                \* Login and operation attempts it made at the controller
    exPc,       \* executeCommand: where the caller is (idle, dialing,
                \* opening, running, returned)
    exCmd,      \* executeCommand: the command of the call
    exCtx,      \* executeCommand: the caller's context is cancelled
    exConn,     \* executeCommand: the SSH connection (none, open, closed)
    exSess,     \* executeCommand: the SSH session (none, open, closed)
    exWorker,   \* executeCommand: the goroutine running the command
                \* (none, running, exited)
    exDone,     \* executeCommand: the channel done, of capacity 1
    exHung,     \* executeCommand: the remote command never ends by itself
    exRet,      \* executeCommand: the error the call returned
    lzPc,       \* lazyClient, concurrent callers: where each caller is in init
    lzOnceRunning,
                \* lazyClient, concurrent callers: a caller is inside
                \* once.Do
    spCall,     \* controller setPower, two concurrent calls: each call's
                \* position, arguments, fetched device and result
    prIn,       \* parsePoEStatus: the output text, as its lines
    prOut,      \* parsePoEStatus: what the parse returned
    prDone,     \* parsePoEStatus: the text has been parsed
    route,      \* controller variant: the handler the request was routed to
    prev        \* controller variant: the power-on or power-off call on an
                \* existing override record that the request before made

gpVars == <<hdrIn, hdrOut, hdrDone>>

rpcVars == <<variant, running, phase, req, resp, bodyRead, calls, poePwr,
             globalMacAddress, PortOverrides>>

restVars == <<route, prev>>

cliVars == <<cliCall, cliStatus, cliOut>>

lazyVars == <<lazy, lazyCall, lazyOut>>

execVars == <<exPc, exCmd, exCtx, exConn, exSess, exWorker, exDone, exHung,
            exRet>>

concVars == <<lzPc, lzOnceRunning>>

raceVars == <<spCall>>

parseVars == <<prIn, prOut, prDone>>

\* the variables of the parts modelled step by step or on their own input
auxVars == <<exPc, exCmd, exCtx, exConn, exSess, exWorker, exDone, exHung,
            exRet,
            lzPc, lzOnceRunning,
            spCall,
            prIn, prOut, prDone>>

vars == <<hdrIn, hdrOut, hdrDone, variant, running, phase, req, resp,
          bodyRead, calls, poePwr, globalMacAddress, PortOverrides,
          cliCall, cliStatus, cliOut, lazy, lazyCall, lazyOut, route, prev,
          exPc, exCmd, exCtx, exConn, exSess, exWorker, exDone, exHung,
          exRet,
          lzPc, lzOnceRunning,
          spCall,
          prIn, prOut, prDone>>

(***************************************************************************)
(* Bounds                                                                  *)
(***************************************************************************)
\* longest X-Port header value handed to GetPort on its own
MaxLen == 3

\* longest X-Port header value of a request sent to the dispatcher
MaxHdrLen == 1

\* ports of the switch, numbered 1..NumPorts
NumPorts == 2

\* most port records in a status parsed from the switch's output
MaxRows == 2

\* concurrent callers of the controller client
NumCallers == 2

\* most lines after the separator row in a text handed to the parser
MaxLines == 3

(***************************************************************************)
(* Text helpers                                                            *)
(***************************************************************************)
Digits == {"0", "1", "2", "3", "9"}

\* characters strings.TrimSpace removes
Space == {" ", "\t"}

\* the characters header values are built from
Chars == Digits \cup Space \cup {"-", "+", "a"}

DigitVal(c) ==
    CASE c = "0" -> 0
      [] c = "1" -> 1
      [] c = "2" -> 2
      [] c = "3" -> 3
      [] c = "9" -> 9

SeqsUpTo(S, n) == UNION {[1..k -> S] : k \in 0..n}

RECURSIVE TrimLeft(_)
TrimLeft(s) ==
    IF s # <<>> /\ Head(s) \in Space THEN TrimLeft(Tail(s)) ELSE s

RECURSIVE TrimRight(_)
TrimRight(s) ==
    IF s # <<>> /\ s[Len(s)] \in Space
    THEN TrimRight(SubSeq(s, 1, Len(s) - 1))
    ELSE s

\* strings.TrimSpace
TrimSpace(s) == TrimRight(TrimLeft(s))

\* the digit loop of strconv.Atoi: n = n*10 + int(ch), syntax error on a
\* non-digit
RECURSIVE AtoiDigits(_, _)
AtoiDigits(s, n) ==
    IF s = <<>> THEN [ok |-> TRUE, n |-> n]
    ELSE IF Head(s) \notin Digits THEN [ok |-> FALSE, n |-> 0]
    ELSE AtoiDigits(Tail(s), n * 10 + DigitVal(Head(s)))

\* strconv.Atoi: optional sign, then one or more decimal digits
Atoi(s) ==
    IF s = <<>> THEN [ok |-> FALSE, n |-> 0]
    ELSE LET signed == Head(s) \in {"-", "+"}
             body   == IF signed THEN Tail(s) ELSE s
             r      == AtoiDigits(body, 0)
         IN  IF body = <<>> \/ ~r.ok THEN [ok |-> FALSE, n |-> 0]
             ELSE IF Head(s) = "-" THEN [ok |-> TRUE, n |-> 0 - r.n]
             ELSE r

(***************************************************************************)
(* models.GetPort (SSH variant addressor)                                  *)
(***************************************************************************)
NoPort == [err |-> "NotCalled", port |-> 0]

\* mutation: the positivity check lets port 0 through
GetPort_AcceptZero(h) ==
    IF h = <<>> THEN [err |-> "MissingPort", port |-> 0]
    ELSE LET r == Atoi(TrimSpace(h))
         IN  IF ~r.ok THEN [err |-> "InvalidPort", port |-> 0]
             ELSE IF r.n < 0 THEN [err |-> "NonPositivePort", port |-> 0]
             ELSE [err |-> "none", port |-> r.n]

GetPort(h) ==
    IF h = <<>> THEN [err |-> "MissingPort", port |-> 0]
    ELSE LET r == Atoi(TrimSpace(h))
         IN  IF ~r.ok THEN [err |-> "InvalidPort", port |-> 0]
             ELSE IF r.n < 1 THEN [err |-> "NonPositivePort", port |-> 0]
             ELSE [err |-> "none", port |-> r.n]

(***************************************************************************)
(* Requests and responses                                                  *)
(***************************************************************************)
\* the RPC method names of the method table
PowerGetMethod == "power.get"

PowerSetMethod == "power.set"

BootDeviceMethod == "boot.device"

PingMethod == "ping"

\* method names of requests: the four of the table and two others
Methods == {PowerGetMethod, PowerSetMethod, BootDeviceMethod, PingMethod,
            "power.off", ""}

\* net/http status codes
StatusOK == 200

StatusBadRequest == 400

StatusNotFound == 404

StatusInternalServerError == 500

\* header values of requests to the dispatcher
HdrChars == {" ", "0", "1", "2", "3", "a"}

HdrValues == SeqsUpTo(HdrChars, MaxHdrLen)

\* the MAC of the one device the controller knows, and one it does not know
KnownMac == "aa:bb:cc:dd:ee:ff"

MacValues == {"", KnownMac, "00:00:00:00:00:01"}

\* id and host of a request body
Origins == {[id |-> 1, host |-> ""], [id |-> 2, host |-> "sw1"]}

\* params of a request body, as JSON: absent, a scalar (a JSON string or
\* number), or an object; state and device are "" when the object lacks
\* them and "#" when it holds them with a non-string value
NoParams == [kind |-> "absent", state |-> "", device |-> "",
             persistent |-> FALSE, efiBoot |-> FALSE]

ScalarParams == [NoParams EXCEPT !.kind = "scalar"]

StateParams(st) == [NoParams EXCEPT !.kind = "object", !.state = st]

BootParams(dev, pers, efi) ==
    [NoParams EXCEPT !.kind = "object", !.device = dev,
                     !.persistent = pers, !.efiBoot = efi]

\* state tokens of power.set requests: the five of the method table, two
\* others, a missing one and a non-string one
StateTokens == {"on", "off", "soft", "reset", "cycle", "bogus", "ON", "", "#"}

\* the params sent with each method (handlers read params only in the
\* power.set and boot.device cases)
ParamsOf(m) ==
    IF m = PowerSetMethod
    THEN {NoParams, ScalarParams} \cup {StateParams(st) : st \in StateTokens}
    ELSE IF m = BootDeviceMethod
    THEN {NoParams, ScalarParams, BootParams("pxe", TRUE, FALSE),
          BootParams("disk", FALSE, TRUE), BootParams("#", FALSE, FALSE)}
    ELSE {NoParams}

NoReq == [xport |-> <<>>, xmac |-> "", bodyOk |-> FALSE, id |-> 0,
          host |-> "", method |-> "", params |-> NoParams]

\* requests: any headers, with a body that is not decodable JSON or one
\* that decodes into a RequestPayload
Requests ==
    {[NoReq EXCEPT !.xport = h, !.xmac = mac] :
        h \in HdrValues, mac \in MacValues}
    \cup
    UNION {{[xport |-> h, xmac |-> mac, bodyOk |-> TRUE, id |-> o.id,
             host |-> o.host, method |-> m, params |-> p] :
               h \in HdrValues, mac \in MacValues, o \in Origins,
               p \in ParamsOf(m)} : m \in Methods}

\* ResponsePayload.Result: nil, a string, or the boot.device acknowledgment
NoResult == [set |-> FALSE, val |-> "", boot |-> NoParams]

StringResult(s) == [set |-> TRUE, val |-> s, boot |-> NoParams]

AckResult(p) == [set |-> TRUE, val |-> "acknowledged", boot |-> p]

\* nothing written (the state before a request, and of a killed process)
NoResp == [kind |-> "none", status |-> 0, id |-> 0, host |-> "",
           result |-> NoResult, errCode |-> 0, errMsg |-> ""]

\* writeError: the status and a JSON {"error": message} body
writeError(statusCode, message) ==
    [NoResp EXCEPT !.kind = "error", !.status = statusCode, !.errMsg = message]

\* mutation: the response keeps the id and drops the host
NewResponsePayload_NoHost(r) ==
    [NoResp EXCEPT !.kind = "rpc", !.id = r.id]

\* the ResponsePayload a handler starts from: id and host of the request
NewResponsePayload(r) ==
    [NoResp EXCEPT !.kind = "rpc", !.id = r.id, !.host = r.host]

\* rp.Error = &ResponseError{Code, Message}
WithError(rp, code, message) ==
    [rp EXCEPT !.errCode = code, !.errMsg = message]

(***************************************************************************)
(* SSH backend: client.Client over the switch's CLI                        *)
(***************************************************************************)
\* the PoE power flag the switch prints for a port
PoEFlags == {"On", "Off", "Powering On", "Powering Off", "Fault"}

\* strings.ToLower on the flags
ToLower(f) ==
    CASE f \in {"On", "ON", "on"} -> "on"
      [] f \in {"Off", "OFF", "off"} -> "off"
      [] f \in {"Powering On", "POWERING ON"} -> "powering on"
      [] f \in {"Powering Off", "POWERING OFF"} -> "powering off"
      [] f = "" -> ""
      [] OTHER -> "fault"

SwitchPorts == 1..NumPorts

\* the CLI commands of the client, before the port number
ShowCommand == "swctrl poe show id"

SetAutoCommand == "swctrl poe set auto id"

SetOffCommand == "swctrl poe set off id"

RestartCommand == "swctrl poe restart id"

\* fmt.Sprintf(text + " %d", portID)
Command(text, portID) == [text |-> text, id |-> portID]

\* Client.executeCommand: one ssh.Dial, one session, one run of the
\* command. The dial fails when the switch cannot be reached (~up); the
\* run fails when a command that changes a port names no port of the
\* switch; otherwise the switch drives the port as the command says.
\* cmds are the commands handed to executeCommand, dials the ssh.Dial calls
executeCommand(sw, command, up) ==
    IF ~up
    THEN [err |-> "failed to connect to SSH server", sw |-> sw,
          cmds |-> <<command>>, dials |-> 1]
    ELSE IF command.text = ShowCommand
    THEN [err |-> "", sw |-> sw, cmds |-> <<command>>, dials |-> 1]
    ELSE IF command.id \notin SwitchPorts
    THEN [err |-> "command execution failed", sw |-> sw,
          cmds |-> <<command>>, dials |-> 1]
    ELSE [err |-> "",
          sw |-> [sw EXCEPT ![command.id] =
                     IF command.text = SetOffCommand THEN "Off" ELSE "On"],
          cmds |-> <<command>>, dials |-> 1]

\* the port records parsePoEStatus returns for the switch's table: one
\* record per port of the switch
SwitchStatus(sw) == [i \in SwitchPorts |-> [Port |-> i, PoEPwr |-> sw[i]]]

\* Client.GetPoEStatus, from what executeCommand returned for the show
\* command and the port records in its output: it fails when the command
\* fails and when parsePoEStatus finds no port record
PoEStatus(ran, parsed) ==
    IF ran.err # ""
    THEN [err |-> "failed to get PoE status", Ports |-> <<>>,
          cmds |-> ran.cmds, dials |-> ran.dials]
    ELSE IF parsed = <<>>
    THEN [err |-> "no port data found in output", Ports |-> <<>>,
          cmds |-> ran.cmds, dials |-> ran.dials]
    ELSE [err |-> "", Ports |-> parsed,
          cmds |-> ran.cmds, dials |-> ran.dials]

\* Client.GetPoEStatus on a switch that prints the table of its ports
GetPoEStatus(sw, portID, up) ==
    PoEStatus(executeCommand(sw, Command(ShowCommand, portID), up),
              SwitchStatus(sw))

\* index of the first record of ports with the port number, 0 when none
FirstMatch(ports, portID) ==
    IF \E i \in 1..Len(ports) : ports[i].Port = portID
    THEN CHOOSE i \in 1..Len(ports) :
            /\ ports[i].Port = portID
            /\ \A j \in 1..(i - 1) : ports[j].Port # portID
    ELSE 0

\* the same scan over port overrides (the loops of getPort and setPower)
FirstMatchIDX(overrides, p) ==
    IF \E i \in 1..Len(overrides) : overrides[i].PortIDX = p
    THEN CHOOSE i \in 1..Len(overrides) :
            /\ overrides[i].PortIDX = p
            /\ \A j \in 1..(i - 1) : overrides[j].PortIDX # p
    ELSE 0

\* mutation: the state of the last matching record, and off when no
\* record matches
PortPowerState_LastOrOff(status, portID) ==
    LET m == {i \in 1..Len(status.Ports) : status.Ports[i].Port = portID}
        i == CHOOSE k \in m : \A j \in m : j <= k
        flag == ToLower(status.Ports[i].PoEPwr)
    IN  IF status.err # ""
        THEN [err |-> "failed to get PoE status", state |-> "PowerOff"]
        ELSE IF m = {} THEN [err |-> "", state |-> "PowerOff"]
        ELSE IF flag = "on" THEN [err |-> "", state |-> "PowerOn"]
        ELSE IF flag = "off" THEN [err |-> "", state |-> "PowerOff"]
        ELSE IF flag = "powering on" THEN [err |-> "", state |-> "PoweringOn"]
        ELSE IF flag = "powering off"
        THEN [err |-> "", state |-> "PoweringOff"]
        ELSE [err |-> "unknown power state", state |-> "PowerOff"]

\* Client.GetPortPowerState, from what GetPoEStatus returned
PortPowerState(status, portID) ==
    LET i == FirstMatch(status.Ports, portID)
        flag == ToLower(status.Ports[i].PoEPwr)
    IN  IF status.err # ""
        THEN [err |-> "failed to get PoE status", state |-> "PowerOff"]
        ELSE IF i = 0
        THEN [err |-> "port not found in status", state |-> "PowerOff"]
        ELSE IF flag = "on" THEN [err |-> "", state |-> "PowerOn"]
        ELSE IF flag = "off" THEN [err |-> "", state |-> "PowerOff"]
        ELSE IF flag = "powering on" THEN [err |-> "", state |-> "PoweringOn"]
        ELSE IF flag = "powering off"
        THEN [err |-> "", state |-> "PoweringOff"]
        ELSE [err |-> "unknown power state", state |-> "PowerOff"]

\* Client.GetPortPowerState
GetPortPowerState(sw, portID, up) ==
    PortPowerState(GetPoEStatus(sw, portID, up), portID)

\* PowerState values: the four constants and two values that are none
PowerStates == {"PowerOff", "PowerOn", "PoweringOff", "PoweringOn",
                "PowerState(4)", "PowerState(-1)"}

\* what SetPortPower and RestartPortPower return of an executeCommand
Ran(ran, message) ==
    [ran EXCEPT !.err = IF ran.err # "" THEN message ELSE ""]

\* mutation: the transitional states are not accepted
SetPortPower_FinalOnly(sw, portID, state, up) ==
    IF state = "PowerOn"
    THEN Ran(executeCommand(sw, Command(SetAutoCommand, portID), up),
             "failed to set port power state")
    ELSE IF state = "PowerOff"
    THEN Ran(executeCommand(sw, Command(SetOffCommand, portID), up),
             "failed to set port power state")
    ELSE [err |-> "unsupported power state", sw |-> sw, cmds |-> <<>>,
          dials |-> 0]

\* mutation: no default case; any other state is handled as off
SetPortPower_DefaultOff(sw, portID, state, up) ==
    IF state \in {"PowerOn", "PoweringOn"}
    THEN Ran(executeCommand(sw, Command(SetAutoCommand, portID), up),
             "failed to set port power state")
    ELSE Ran(executeCommand(sw, Command(SetOffCommand, portID), up),
             "failed to set port power state")

\* Client.SetPortPower
SetPortPower(sw, portID, state, up) ==
    IF state \in {"PowerOn", "PoweringOn"}
    THEN Ran(executeCommand(sw, Command(SetAutoCommand, portID), up),
             "failed to set port power state")
    ELSE IF state \in {"PowerOff", "PoweringOff"}
    THEN Ran(executeCommand(sw, Command(SetOffCommand, portID), up),
             "failed to set port power state")
    ELSE [err |-> "unsupported power state", sw |-> sw, cmds |-> <<>>,
          dials |-> 0]

\* mutation: the port is restarted by switching it off and then on
RestartPortPower_OffThenOn(sw, portID, up) ==
    LET off == executeCommand(sw, Command(SetOffCommand, portID), up)
        on == executeCommand(off.sw, Command(SetAutoCommand, portID), up)
    IN  IF off.err # "" THEN Ran(off, "failed to restart port power")
        ELSE [Ran(on, "failed to restart port power")
                 EXCEPT !.cmds = off.cmds \o on.cmds,
                        !.dials = off.dials + on.dials]

\* Client.RestartPortPower
RestartPortPower(sw, portID, up) ==
    Ran(executeCommand(sw, Command(RestartCommand, portID), up),
        "failed to restart port power")

\* an entry of calls: the backend method, its port and state arguments,
\* and the error ("" for nil) and value it returned
Call(op, portID, state, err, ret) ==
    [op |-> op, port |-> portID, state |-> state, err |-> err, ret |-> ret]

(***************************************************************************)
(* SSH variant: rpcService                                                 *)
(***************************************************************************)
\* mutation: the two cases of the switch exchanged
getPowerState_Swapped(got) ==
    IF got.err # "" THEN [err |-> "failed to get power state", state |-> ""]
    ELSE IF got.state = "PowerOn" THEN [err |-> "", state |-> "off"]
    ELSE IF got.state = "PowerOff" THEN [err |-> "", state |-> "on"]
    ELSE [err |-> "", state |-> "unknown"]

\* rpcService.getPowerState, from what GetPortPowerState returned
getPowerState(got) ==
    IF got.err # "" THEN [err |-> "failed to get power state", state |-> ""]
    ELSE IF got.state = "PowerOn" THEN [err |-> "", state |-> "on"]
    ELSE IF got.state = "PowerOff" THEN [err |-> "", state |-> "off"]
    ELSE [err |-> "", state |-> "unknown"]

\* mutation: "soft" grouped with "on" instead of "off"
setPowerState_SoftOn(sw, portNum, state, up) ==
    LET powerState == IF state \in {"on", "soft"} THEN "PowerOn"
                      ELSE "PowerOff"
        done == SetPortPower(sw, portNum, powerState, up)
    IN  IF state \notin {"on", "off", "soft"}
        THEN [err |-> "invalid power state", sw |-> sw, calls |-> <<>>]
        ELSE [err |-> IF done.err # "" THEN "failed to set power state"
                      ELSE "",
              sw |-> done.sw,
              calls |-> <<Call("SetPortPower", portNum, powerState,
                               done.err, "-")>>]

\* rpcService.setPowerState: the backend call it makes, if any
setPowerState(sw, portNum, state, up) ==
    LET powerState == IF state = "on" THEN "PowerOn" ELSE "PowerOff"
        done == SetPortPower(sw, portNum, powerState, up)
    IN  IF state \notin {"on", "off", "soft"}
        THEN [err |-> "invalid power state", sw |-> sw, calls |-> <<>>]
        ELSE [err |-> IF done.err # "" THEN "failed to set power state"
                      ELSE "",
              sw |-> done.sw,
              calls |-> <<Call("SetPortPower", portNum, powerState,
                               done.err, "-")>>]

\* rpcService.restartPort
restartPort(sw, portNum, up) ==
    LET done == RestartPortPower(sw, portNum, up)
    IN  [err |-> IF done.err # "" THEN "failed to restart port" ELSE "",
         sw |-> done.sw,
         calls |-> <<Call("RestartPortPower", portNum, "-", done.err, "-")>>]

\* json.Unmarshal of the params into PowerSetParams: it fails on a scalar
\* and on a state that is not a JSON string
PowerSetParamsDecode(p) ==
    /\ p.kind # "scalar"
    /\ p.state # "#"

\* json.Unmarshal of the params into BootDeviceParams
BootDeviceParamsDecode(p) ==
    /\ p.kind # "scalar"
    /\ p.device # "#"

\* the outcome of a handler: the response, the calls, the backend after it
Outcome(rp, cs, sw, read) ==
    [resp |-> rp, calls |-> cs, sw |-> sw, bodyRead |-> read]

\* RpcHandler, case PowerGetMethod
HandlePowerGet(r, rp, port, sw, up) ==
    LET raw == GetPortPowerState(sw, port, up)
        got == getPowerState(raw)
        cs == <<Call("GetPortPowerState", port, "-", raw.err, raw.state)>>
    IN  IF got.err # ""
        THEN Outcome(WithError(rp, StatusInternalServerError,
                               "error getting power state"), cs, sw, TRUE)
        ELSE Outcome([rp EXCEPT !.result = StringResult(got.state)],
                     cs, sw, TRUE)

\* mutation: no default case; every state that is not reset or cycle is
\* handed to setPowerState, whose own rejection is reported as a 500
HandlePowerSet_NoDefault(r, rp, port, sw, up) ==
    LET state == r.params.state
        set == setPowerState(sw, port, state, up)
        cyc == restartPort(sw, port, up)
    IN  IF ~PowerSetParamsDecode(r.params)
        THEN Outcome(WithError(rp, StatusBadRequest,
                               "error parsing PowerSetParams"), <<>>, sw, TRUE)
        ELSE IF state \in {"reset", "cycle"}
        THEN Outcome(IF cyc.err # ""
                     THEN WithError(rp, StatusInternalServerError,
                                    "error power cycling port")
                     ELSE rp, cyc.calls, cyc.sw, TRUE)
        ELSE Outcome(IF set.err # ""
                     THEN WithError(rp, StatusInternalServerError,
                                    "error setting power state")
                     ELSE rp, set.calls, set.sw, TRUE)

\* RpcHandler, case PowerSetMethod
HandlePowerSet(r, rp, port, sw, up) ==
    LET state == r.params.state
        set == setPowerState(sw, port, state, up)
        cyc == restartPort(sw, port, up)
    IN  IF ~PowerSetParamsDecode(r.params)
        THEN Outcome(WithError(rp, StatusBadRequest,
                               "error parsing PowerSetParams"), <<>>, sw, TRUE)
        ELSE IF state \in {"on", "off", "soft"}
        THEN Outcome(IF set.err # ""
                     THEN WithError(rp, StatusInternalServerError,
                                    "error setting power state")
                     ELSE rp, set.calls, set.sw, TRUE)
        ELSE IF state \in {"reset", "cycle"}
        THEN Outcome(IF cyc.err # ""
                     THEN WithError(rp, StatusInternalServerError,
                                    "error power cycling port")
                     ELSE rp, cyc.calls, cyc.sw, TRUE)
        ELSE Outcome(WithError(rp, StatusBadRequest, "invalid power state"),
                     <<>>, sw, TRUE)

\* mutation: the acknowledgment is written whether or not the params decode
HandleBootDevice_AlwaysAck(r, rp, sw) ==
    Outcome([rp EXCEPT !.result =
                 AckResult([r.params EXCEPT !.kind = "object",
                                            !.state = ""])],
            <<>>, sw, TRUE)

\* RpcHandler, case BootDeviceMethod
HandleBootDevice(r, rp, sw) ==
    IF ~BootDeviceParamsDecode(r.params)
    THEN Outcome(WithError(rp, StatusBadRequest,
                           "error parsing BootDeviceParams"), <<>>, sw, TRUE)
    ELSE Outcome([rp EXCEPT !.result =
                      AckResult([r.params EXCEPT !.kind = "object",
                                                 !.state = ""])],
                 <<>>, sw, TRUE)

\* mutation: ping asks the backend for the port's state before it answers
Dispatch_PingProbes(r, rp, port, sw, up) ==
    IF r.method = PowerGetMethod THEN HandlePowerGet(r, rp, port, sw, up)
    ELSE IF r.method = PowerSetMethod THEN HandlePowerSet(r, rp, port, sw, up)
    ELSE IF r.method = BootDeviceMethod THEN HandleBootDevice(r, rp, sw)
    ELSE IF r.method = PingMethod
    THEN Outcome([rp EXCEPT !.result = StringResult("pong")],
                 HandlePowerGet(r, rp, port, sw, up).calls, sw, TRUE)
    ELSE Outcome(WithError(rp, StatusNotFound, "unknown method"),
                 <<>>, sw, TRUE)

\* RpcHandler, the switch on req.Method
Dispatch(r, rp, port, sw, up) ==
    IF r.method = PowerGetMethod THEN HandlePowerGet(r, rp, port, sw, up)
    ELSE IF r.method = PowerSetMethod THEN HandlePowerSet(r, rp, port, sw, up)
    ELSE IF r.method = BootDeviceMethod THEN HandleBootDevice(r, rp, sw)
    ELSE IF r.method = PingMethod
    THEN Outcome([rp EXCEPT !.result = StringResult("pong")], <<>>, sw, TRUE)
    ELSE Outcome(WithError(rp, StatusNotFound, "unknown method"),
                 <<>>, sw, TRUE)

\* mutation: the status is written as 200 whatever rp.Error holds
WithStatus_AlwaysOK(o) == [o EXCEPT !.resp.status = StatusOK]

\* the status RpcHandler writes: the error's code, or 200
WithStatus(o) ==
    [o EXCEPT !.resp.status = IF o.resp.errCode # 0 THEN o.resp.errCode
                              ELSE StatusOK]

\* rpcService.RpcHandler of the SSH variant, for request r with the switch
\* in state sw and reachable or not (up)
SshRpcHandler(r, sw, up) ==
    LET port == GetPort(r.xport)
    IN  IF port.err # "none"
        THEN Outcome(writeError(StatusBadRequest, port.err), <<>>, sw, FALSE)
        ELSE IF ~r.bodyOk
        THEN Outcome(writeError(StatusBadRequest, "Invalid JSON payload"),
                     <<>>, sw, TRUE)
        ELSE WithStatus(Dispatch(r, NewResponsePayload(r), port.port, sw, up))

(***************************************************************************)
(* Controller variant: rpcService over the controller API                  *)
(***************************************************************************)
\* PoE modes of a port override
PoeModes == {"auto", "off", "pasv24"}

\* the zero unifi.DevicePortOverrides
NoOverride == [PortIDX |-> 0, PoeMode |-> ""]

\* mutation: the X-Port check left out
validateHeaders_NoPortCheck(r, global) ==
    IF r.xmac = "" /\ global = ""
    THEN "Missing X-MAC-Address header and no global device MAC address configured"
    ELSE ""

\* validateHeaders: "" when the request may proceed
validateHeaders(r, global) ==
    IF r.xmac = "" /\ global = ""
    THEN "Missing X-MAC-Address header and no global device MAC address configured"
    ELSE IF r.xport = <<>> THEN "Missing X-Port header"
    ELSE ""

\* mutation: the configured global MAC wins over the header
GetMachineWithGlobal_GlobalFirst(r, global) ==
    [MacAddress |-> IF global = "" THEN r.xmac ELSE global,
     PortIdx |-> r.xport]

\* models.GetMachineWithGlobal
GetMachineWithGlobal(r, global) ==
    [MacAddress |-> IF r.xmac = "" THEN global ELSE r.xmac,
     PortIdx |-> r.xport]

\* client.GetDeviceByMAC: fails when the controller cannot be reached and
\* when it knows no device with the MAC
GetDeviceByMAC(mac, up) ==
    IF ~up THEN "controller unreachable"
    ELSE IF mac # KnownMac THEN "not found"
    ELSE ""

\* an entry of calls for a controller call: the method, the MAC, the error
\* it returned, and the port overrides of the device it returned
\* (GetDeviceByMAC) or was handed (UpdateDevice)
DeviceCall(op, mac, err, dev) ==
    [op |-> op, port |-> 0, state |-> mac, err |-> err, ret |-> "-",
     dev |-> dev]

\* rpcService.getPort (controller variant): the override record of the port
getPort(macAddress, portIdx, overrides, up) ==
    LET p == Atoi(portIdx)
        i == FirstMatchIDX(overrides, p.n)
        found == GetDeviceByMAC(macAddress, up)
        fetch == <<DeviceCall("GetDeviceByMAC", macAddress, found,
                              IF found = "" THEN overrides ELSE <<>>)>>
    IN  IF ~p.ok
        THEN [err |-> "error getting integer value from port",
              port |-> NoOverride, calls |-> <<>>]
        ELSE IF GetDeviceByMAC(macAddress, up) # ""
        THEN [err |-> "error getting device by MAC Address",
              port |-> NoOverride, calls |-> fetch]
        ELSE [err |-> "",
              port |-> IF i = 0 THEN NoOverride ELSE overrides[i],
              calls |-> fetch]

\* rpcService.isPoweredOn (controller variant)
isPoweredOn(macAddress, portIdx, overrides, up) ==
    LET got == getPort(macAddress, portIdx, overrides, up)
    IN  [err |-> got.err,
         on |-> got.err = "" /\ got.port.PoeMode = "auto",
         calls |-> got.calls]

\* mutation: every mode but "off" reads as on
GetPower_OnUnlessOff(macAddress, portIdx, overrides, up) ==
    LET got == getPort(macAddress, portIdx, overrides, up)
    IN  [err |-> got.err,
         state |-> IF got.err # "" THEN ""
                   ELSE IF got.port.PoeMode # "off" THEN "on" ELSE "off",
         calls |-> got.calls]

\* rpcService.isPoweredOn and rpcService.GetPower (controller variant)
GetPower(macAddress, portIdx, overrides, up) ==
    LET got == getPort(macAddress, portIdx, overrides, up)
    IN  [err |-> got.err,
         state |-> IF got.err # "" THEN ""
                   ELSE IF got.port.PoeMode = "auto" THEN "on" ELSE "off",
         calls |-> got.calls]

\* log.Fatalf in a handler: the process exits before anything is written
Fatal(cs) ==
    [resp |-> NoResp, calls |-> cs, bodyRead |-> TRUE, exit |-> TRUE]

\* what a handler of the controller variant wrote, the process living on
Wrote(rp, cs, read) ==
    [resp |-> rp, calls |-> cs, bodyRead |-> read, exit |-> FALSE]

\* rpcService.RpcHandler of the controller variant. req.Params is decoded
\* into an untyped value, so the assertions req.Params.(PowerSetParams) and
\* req.Params.(BootDeviceParams) fail and log.Fatalf follows
CtlRpcHandlerOf(r, global, overrides, up) ==
    LET machine == GetMachineWithGlobal(r, global)
        rp == [NewResponsePayload(r) EXCEPT !.status = StatusOK]
        got == GetPower(machine.MacAddress, machine.PortIdx, overrides, up)
    IN  IF validateHeaders(r, global) # ""
        THEN Wrote(writeError(StatusBadRequest, validateHeaders(r, global)),
                   <<>>, FALSE)
        ELSE IF ~r.bodyOk
        THEN Wrote(writeError(StatusBadRequest, "Invalid JSON payload"),
                   <<>>, TRUE)
        ELSE IF r.method = PowerGetMethod
        THEN IF got.err # "" THEN Fatal(got.calls)
             ELSE Wrote([rp EXCEPT !.result = StringResult(got.state)],
                        got.calls, TRUE)
        ELSE IF r.method = PowerSetMethod THEN Fatal(<<>>)
        ELSE IF r.method = BootDeviceMethod THEN Fatal(<<>>)
        ELSE IF r.method = PingMethod
        THEN Wrote([rp EXCEPT !.result = StringResult("pong")], <<>>, TRUE)
        ELSE Wrote([rp EXCEPT !.status = StatusNotFound], <<>>, TRUE)

\* what a handler of the controller variant's REST routes did: what it
\* wrote, the calls it made, and the device's port overrides after it
Handled(rp, cs, overrides) ==
    [resp |-> rp, calls |-> cs, overrides |-> overrides]

\* a handler's JSON {"status": message} body, written with the default 200
writeStatus(message) ==
    [NoResp EXCEPT !.kind = "status", !.status = StatusOK,
                   !.result = StringResult(message)]

\* the PoE mode setPower writes for a target state
ModeOf(state) == IF state THEN "auto" ELSE "off"

\* mutation: no short-circuit; the device is written back on every call
setPower_AlwaysWrite(macAddress, portIdx, state, overrides, up, upd) ==
    LET p == Atoi(portIdx)
        found == GetDeviceByMAC(macAddress, up)
        fetch == DeviceCall("GetDeviceByMAC", macAddress, found,
                            IF found = "" THEN overrides ELSE <<>>)
        i == FirstMatchIDX(overrides, p.n)
        dev == IF i = 0 THEN overrides
               ELSE [overrides EXCEPT ![i].PoeMode = ModeOf(state)]
        write == DeviceCall("UpdateDevice", macAddress,
                            IF upd THEN "" ELSE "update failed", dev)
    IN  IF ~p.ok
        THEN [err |-> "error getting integer value from port",
              calls |-> <<>>, overrides |-> overrides]
        ELSE IF found # ""
        THEN [err |-> "error getting device by MAC Address",
              calls |-> <<fetch>>, overrides |-> overrides]
        ELSE [err |-> IF upd THEN "" ELSE "error updating device",
              calls |-> <<fetch, write>>,
              overrides |-> IF upd THEN dev ELSE overrides]

\* mutation: the mode is set in every override record of the device
setPower_EveryPort(macAddress, portIdx, state, overrides, up, upd) ==
    LET p == Atoi(portIdx)
        found == GetDeviceByMAC(macAddress, up)
        fetch == DeviceCall("GetDeviceByMAC", macAddress, found,
                            IF found = "" THEN overrides ELSE <<>>)
        i == FirstMatchIDX(overrides, p.n)
        dev == IF i = 0 THEN overrides
               ELSE [k \in 1..Len(overrides) |->
                        [overrides[k] EXCEPT !.PoeMode = ModeOf(state)]]
        write == DeviceCall("UpdateDevice", macAddress,
                            IF upd THEN "" ELSE "update failed", dev)
    IN  IF ~p.ok
        THEN [err |-> "error getting integer value from port",
              calls |-> <<>>, overrides |-> overrides]
        ELSE IF found # ""
        THEN [err |-> "error getting device by MAC Address",
              calls |-> <<fetch>>, overrides |-> overrides]
        ELSE IF i # 0 /\ overrides[i].PoeMode = ModeOf(state)
        THEN [err |-> "", calls |-> <<fetch>>, overrides |-> overrides]
        ELSE [err |-> IF upd THEN "" ELSE "error updating device",
              calls |-> <<fetch, write>>,
              overrides |-> IF upd THEN dev ELSE overrides]

\* rpcService.setPower (controller variant): the device is fetched, the
\* first override record of the port is set to the mode unless it has it
\* already, and the whole device is handed to UpdateDevice, which succeeds
\* (upd) and replaces the controller's device, or fails and leaves it
setPower(macAddress, portIdx, state, overrides, up, upd) ==
    LET p == Atoi(portIdx)
        found == GetDeviceByMAC(macAddress, up)
        fetch == DeviceCall("GetDeviceByMAC", macAddress, found,
                            IF found = "" THEN overrides ELSE <<>>)
        i == FirstMatchIDX(overrides, p.n)
        dev == IF i = 0 THEN overrides
               ELSE [overrides EXCEPT ![i].PoeMode = ModeOf(state)]
        write == DeviceCall("UpdateDevice", macAddress,
                            IF upd THEN "" ELSE "update failed", dev)
    IN  IF ~p.ok
        THEN [err |-> "error getting integer value from port",
              calls |-> <<>>, overrides |-> overrides]
        ELSE IF found # ""
        THEN [err |-> "error getting device by MAC Address",
              calls |-> <<fetch>>, overrides |-> overrides]
        ELSE IF i # 0 /\ overrides[i].PoeMode = ModeOf(state)
        THEN [err |-> "", calls |-> <<fetch>>, overrides |-> overrides]
        ELSE [err |-> IF upd THEN "" ELSE "error updating device",
              calls |-> <<fetch, write>>,
              overrides |-> IF upd THEN dev ELSE overrides]

\* Machine.GetPort: a pointer to the parsed port, nil when it does not parse
MachineGetPort(portIdx) ==
    LET p == Atoi(portIdx)
    IN  [nil |-> ~p.ok, v |-> IF p.ok THEN p.n ELSE 0]

\* client.ExecuteCmd of the power-cycle command
ExecuteCmd(mac, portPtr, up) ==
    [op |-> "ExecuteCmd", port |-> portPtr.v, state |-> mac,
     err |-> IF up THEN "" ELSE "controller unreachable",
     ret |-> "power-cycle", nilPort |-> portPtr.nil]

\* rpcService.StatusHandler
StatusHandlerOf(r, global, overrides, up) ==
    LET machine == GetMachineWithGlobal(r, global)
        got == isPoweredOn(machine.MacAddress, machine.PortIdx, overrides, up)
    IN  IF validateHeaders(r, global) # ""
        THEN Handled(writeError(StatusBadRequest, validateHeaders(r, global)),
                     <<>>, overrides)
        ELSE IF got.err # ""
        THEN Handled(writeError(StatusNotFound, "error checking power state"),
                     got.calls, overrides)
        ELSE Handled(writeStatus(IF got.on THEN "PoweredOn:true"
                                 ELSE "PoweredOn:false"),
                     got.calls, overrides)

\* rpcService.PowerOnHandler (state) and rpcService.PowerOffHandler (~state)
PowerHandlerOf(r, global, state, overrides, up, upd) ==
    LET machine == GetMachineWithGlobal(r, global)
        set == setPower(machine.MacAddress, machine.PortIdx, state,
                        overrides, up, upd)
    IN  IF validateHeaders(r, global) # ""
        THEN Handled(writeError(StatusBadRequest, validateHeaders(r, global)),
                     <<>>, overrides)
        ELSE IF set.err # ""
        THEN Handled(writeError(StatusInternalServerError,
                                IF state THEN "error setting power on"
                                ELSE "error setting power off"),
                     set.calls, set.overrides)
        ELSE Handled(writeStatus(IF state THEN "power on successful"
                                 ELSE "power off successful"),
                     set.calls, set.overrides)

\* rpcService.PxeBootHandler
PxeBootHandlerOf(r, global, overrides) ==
    IF validateHeaders(r, global) # ""
    THEN Handled(writeError(StatusBadRequest, validateHeaders(r, global)),
                 <<>>, overrides)
    ELSE Handled(writeStatus("pxe boot requested"), <<>>, overrides)

\* mutation: the device is fetched before the command is issued
RebootHandlerOf_FetchFirst(r, global, overrides, up) ==
    LET machine == GetMachineWithGlobal(r, global)
        found == GetDeviceByMAC(machine.MacAddress, up)
        fetch == DeviceCall("GetDeviceByMAC", machine.MacAddress, found,
                            IF found = "" THEN overrides ELSE <<>>)
        cmd == ExecuteCmd(machine.MacAddress,
                          MachineGetPort(machine.PortIdx), up)
    IN  IF validateHeaders(r, global) # ""
        THEN Handled(writeError(StatusBadRequest, validateHeaders(r, global)),
                     <<>>, overrides)
        ELSE IF cmd.err # ""
        THEN Handled(writeError(StatusInternalServerError,
                                "error rebooting device"),
                     <<fetch, cmd>>, overrides)
        ELSE Handled(writeStatus("reboot successful"), <<fetch, cmd>>,
                     overrides)

\* rpcService.RebootHandler
RebootHandlerOf(r, global, overrides, up) ==
    LET machine == GetMachineWithGlobal(r, global)
        cmd == ExecuteCmd(machine.MacAddress,
                          MachineGetPort(machine.PortIdx), up)
    IN  IF validateHeaders(r, global) # ""
        THEN Handled(writeError(StatusBadRequest, validateHeaders(r, global)),
                     <<>>, overrides)
        ELSE IF cmd.err # ""
        THEN Handled(writeError(StatusInternalServerError,
                                "error rebooting device"),
                     <<cmd>>, overrides)
        ELSE Handled(writeStatus("reboot successful"), <<cmd>>, overrides)

(***************************************************************************)
(* Spec: the server handling one request after another                     *)
(***************************************************************************)
\* the port overrides a device can start with: records for ports 1..k
OverrideLists ==
    UNION {{[i \in 1..k |-> [PortIDX |-> i, PoeMode |-> m[i]]] :
               m \in [1..k -> PoeModes]} : k \in 0..NumPorts}

\* the dispatcher's variables while only GetPort is exercised
RpcUnused ==
    /\ variant = "none"
    /\ running = FALSE
    /\ phase = "idle"
    /\ req = NoReq
    /\ resp = NoResp
    /\ bodyRead = FALSE
    /\ calls = <<>>
    /\ poePwr = [i \in SwitchPorts |-> "Off"]
    /\ globalMacAddress = ""
    /\ PortOverrides = <<>>

\* no call of the SSH client is in hand
NoCall == [op |-> "", port |-> 0, state |-> ""]

NoOut == [err |-> "", state |-> "", cmds |-> <<>>, dials |-> 0]

\* the SSH client's variables while the client is not exercised on its own
CliUnused ==
    /\ cliCall = NoCall
    /\ cliStatus = <<>>
    /\ cliOut = NoOut

\* the lazyClient NewClient returns: nothing initialised, no cookie
NewLazyClient(baseOK) ==
    [once |-> FALSE, initErr |-> "", token |-> FALSE, baseOK |-> baseOK]

NoLazyCall == [op |-> "", mac |-> "", port |-> 0]

NoLazyOut == [err |-> "", logins |-> 0, attempts |-> 0]

\* the controller client's variables while it is not exercised on its own
LazyUnused ==
    /\ lazy = NewLazyClient(TRUE)
    /\ lazyCall = NoLazyCall
    /\ lazyOut = NoLazyOut

\* no executeCommand call is in hand
ExecUnused ==
    /\ exPc = "idle"
    /\ exCmd = [text |-> "", id |-> 0]
    /\ exCtx = FALSE
    /\ exConn = "none"
    /\ exSess = "none"
    /\ exWorker = "none"
    /\ exDone = <<>>
    /\ exHung = FALSE
    /\ exRet = ""

Callers == 1..NumCallers

\* no caller is inside lazyClient.init
ConcUnused ==
    /\ lzPc = [p \in Callers |-> "idle"]
    /\ lzOnceRunning = FALSE

\* the two concurrent setPower calls
SetCallers == {1, 2}

NoSetCall ==
    [pc |-> "idle", port |-> <<>>, state |-> FALSE, dev |-> <<>>,
     err |-> "", wrote |-> FALSE]

\* no setPower call is in hand
RaceUnused == spCall = [p \in SetCallers |-> NoSetCall]

\* no parse has returned
NoParse == [err |-> "not parsed", total |-> 0, ports |-> <<>>]

\* no output text is being parsed
ParseUnused ==
    /\ prIn = <<>>
    /\ prOut = NoParse
    /\ prDone = FALSE

\* the added parts' variables while they are not exercised
AuxUnused ==
    /\ ExecUnused
    /\ ConcUnused
    /\ RaceUnused
    /\ ParseUnused

\* no power-on or power-off call on an override record came before
NoPrev == [route |-> "", mac |-> "", port |-> 0, was |-> "", updates |-> 0]

\* the REST routes' variables while only the RPC route is exercised
RestUnused ==
    /\ route = "rpc"
    /\ prev = NoPrev

Init ==
    /\ RestUnused
    /\ CliUnused
    /\ LazyUnused
    /\ AuxUnused
    /\ hdrIn = <<>>
    /\ hdrOut = NoPort
    /\ hdrDone = FALSE
    /\ running = TRUE
    /\ phase = "idle"
    /\ req = NoReq
    /\ resp = NoResp
    /\ bodyRead = FALSE
    /\ calls = <<>>
    /\ \/ /\ variant = "ssh"
          /\ poePwr \in [SwitchPorts -> PoEFlags]
          /\ globalMacAddress = ""
          /\ PortOverrides = <<>>
       \/ /\ variant = "controller"
          /\ poePwr = [i \in SwitchPorts |-> "Off"]
          /\ globalMacAddress \in {"", KnownMac}
          /\ PortOverrides \in OverrideLists

\* the SSH variant serves a request (it reads no X-MAC-Address header)
RpcHandler ==
    /\ variant = "ssh"
    /\ running
    /\ phase = "idle"
    /\ \E r \in {q \in Requests : q.xmac = ""}, up \in BOOLEAN :
         LET o == SshRpcHandler(r, poePwr, up)
         IN  /\ req' = r
             /\ resp' = o.resp
             /\ calls' = o.calls
             /\ bodyRead' = o.bodyRead
             /\ poePwr' = o.sw
    /\ phase' = "responded"
    /\ UNCHANGED <<variant, running, globalMacAddress, PortOverrides>>
    /\ UNCHANGED gpVars
    /\ UNCHANGED restVars
    /\ UNCHANGED cliVars
    /\ UNCHANGED lazyVars
    /\ UNCHANGED auxVars

\* the controller variant serves a request
CtlRpcHandler ==
    /\ variant = "controller"
    /\ running
    /\ phase = "idle"
    /\ \E r \in Requests, up \in BOOLEAN :
         LET o == CtlRpcHandlerOf(r, globalMacAddress, PortOverrides, up)
         IN  /\ req' = r
             /\ resp' = o.resp
             /\ calls' = o.calls
             /\ bodyRead' = o.bodyRead
             /\ running' = ~o.exit
    /\ phase' = "responded"
    /\ UNCHANGED <<variant, poePwr, globalMacAddress, PortOverrides>>
    /\ UNCHANGED gpVars
    /\ UNCHANGED restVars
    /\ UNCHANGED cliVars
    /\ UNCHANGED lazyVars
    /\ UNCHANGED auxVars

\* the request is over: nothing of it is kept, and the next one may arrive
NextRequest ==
    /\ running
    /\ phase = "responded"
    /\ phase' = "idle"
    /\ req' = NoReq
    /\ resp' = NoResp
    /\ bodyRead' = FALSE
    /\ calls' = <<>>
    /\ UNCHANGED <<variant, running, poePwr, globalMacAddress, PortOverrides>>
    /\ UNCHANGED gpVars
    /\ UNCHANGED restVars
    /\ UNCHANGED cliVars
    /\ UNCHANGED lazyVars
    /\ UNCHANGED auxVars

Next == RpcHandler \/ CtlRpcHandler \/ NextRequest

Spec == Init /\ [][Next]_vars

(***************************************************************************)
(* SpecGetPort: GetPort applied to every header value up to MaxLen         *)
(***************************************************************************)
InitGetPort ==
    /\ hdrIn \in SeqsUpTo(Chars, MaxLen)
    /\ hdrOut = NoPort
    /\ hdrDone = FALSE
    /\ RpcUnused
    /\ RestUnused
    /\ CliUnused
    /\ LazyUnused
    /\ AuxUnused

CallGetPort ==
    /\ ~hdrDone
    /\ hdrOut' = GetPort(hdrIn)
    /\ hdrDone' = TRUE
    /\ UNCHANGED hdrIn
    /\ UNCHANGED rpcVars
    /\ UNCHANGED restVars
    /\ UNCHANGED cliVars
    /\ UNCHANGED lazyVars
    /\ UNCHANGED auxVars

NextGetPort == CallGetPort

SpecGetPort == InitGetPort /\ [][NextGetPort]_vars

(***************************************************************************)
(* SpecRest: the controller variant's REST routes, one request after       *)
(* another, on a device whose port overrides the power routes rewrite      *)
(***************************************************************************)
\* X-Port values of requests to the REST routes
RestHdrValues == SeqsUpTo(HdrChars, 1) \cup {<<" ", "1">>}

\* requests to the REST routes: headers only, the body is not read
RestRequests ==
    {[NoReq EXCEPT !.xport = h, !.xmac = mac] :
        h \in RestHdrValues, mac \in MacValues}

InitRest ==
    /\ hdrIn = <<>>
    /\ hdrOut = NoPort
    /\ hdrDone = FALSE
    /\ variant = "controller"
    /\ running = TRUE
    /\ phase = "idle"
    /\ req = NoReq
    /\ resp = NoResp
    /\ bodyRead = FALSE
    /\ calls = <<>>
    /\ poePwr = [i \in SwitchPorts |-> "Off"]
    /\ globalMacAddress \in {"", KnownMac}
    /\ PortOverrides \in OverrideLists
    /\ route = ""
    /\ prev = NoPrev
    /\ CliUnused
    /\ LazyUnused
    /\ AuxUnused

\* a REST handler has run: its outcome o for request r on route rt
Serve(rt, r, o) ==
    /\ phase' = "responded"
    /\ route' = rt
    /\ req' = r
    /\ resp' = o.resp
    /\ calls' = o.calls
    /\ PortOverrides' = o.overrides
    /\ UNCHANGED <<variant, running, bodyRead, poePwr, globalMacAddress, prev>>
    /\ UNCHANGED gpVars
    /\ UNCHANGED cliVars
    /\ UNCHANGED lazyVars
    /\ UNCHANGED auxVars

StatusHandler ==
    /\ phase = "idle"
    /\ \E r \in RestRequests, up \in BOOLEAN :
         Serve("status", r,
               StatusHandlerOf(r, globalMacAddress, PortOverrides, up))

PowerOnHandler ==
    /\ phase = "idle"
    /\ \E r \in RestRequests, up \in BOOLEAN, upd \in BOOLEAN :
         Serve("on", r, PowerHandlerOf(r, globalMacAddress, TRUE,
                                       PortOverrides, up, upd))

PowerOffHandler ==
    /\ phase = "idle"
    /\ \E r \in RestRequests, up \in BOOLEAN, upd \in BOOLEAN :
         Serve("off", r, PowerHandlerOf(r, globalMacAddress, FALSE,
                                        PortOverrides, up, upd))

PxeBootHandler ==
    /\ phase = "idle"
    /\ \E r \in RestRequests :
         Serve("pxe", r, PxeBootHandlerOf(r, globalMacAddress, PortOverrides))

RebootHandler ==
    /\ phase = "idle"
    /\ \E r \in RestRequests, up \in BOOLEAN :
         Serve("reboot", r,
               RebootHandlerOf(r, globalMacAddress, PortOverrides, up))

\* the UpdateDevice calls among the calls cs
UpdateCalls(cs) == {i \in 1..Len(cs) : cs[i].op = "UpdateDevice"}

\* what prev keeps of the request that is over: a power-on or power-off
\* call that succeeded on a device with an override record of the port
Summary ==
    LET p == Atoi(req.xport)
        i == FirstMatchIDX(calls[1].dev, p.n)
    IN  IF /\ route \in {"on", "off"}
           /\ resp.kind = "status"
           /\ i # 0
        THEN [route |-> route, mac |-> calls[1].state, port |-> p.n,
              was |-> calls[1].dev[i].PoeMode,
              updates |-> Cardinality(UpdateCalls(calls))]
        ELSE NoPrev

\* the request is over, and the next one may arrive
RestNextRequest ==
    /\ phase = "responded"
    /\ phase' = "idle"
    /\ prev' = Summary
    /\ route' = ""
    /\ req' = NoReq
    /\ resp' = NoResp
    /\ calls' = <<>>
    /\ UNCHANGED <<variant, running, bodyRead, poePwr, globalMacAddress,
                   PortOverrides>>
    /\ UNCHANGED gpVars
    /\ UNCHANGED cliVars
    /\ UNCHANGED lazyVars
    /\ UNCHANGED auxVars

NextRest ==
    \/ StatusHandler
    \/ PowerOnHandler
    \/ PowerOffHandler
    \/ PxeBootHandler
    \/ RebootHandler
    \/ RestNextRequest

SpecRest == InitRest /\ [][NextRest]_vars

(***************************************************************************)
(* SpecClient: the SSH client called directly, one call after another, on  *)
(* a switch whose show output parses into any list of port records         *)
(***************************************************************************)
\* PoE power flags in a parsed status: those of the switch, and one in
\* another letter case
StatusFlags == PoEFlags \cup {"ON"}

\* the port records parsePoEStatus can return, none when it fails
Statuses ==
    SeqsUpTo([Port : SwitchPorts, PoEPwr : StatusFlags], MaxRows)

\* port arguments of calls: the ports of the switch and one beyond
PortArgs == 1..(NumPorts + 1)

InitClient ==
    /\ hdrIn = <<>>
    /\ hdrOut = NoPort
    /\ hdrDone = FALSE
    /\ variant = "ssh"
    /\ running = TRUE
    /\ phase = "idle"
    /\ req = NoReq
    /\ resp = NoResp
    /\ bodyRead = FALSE
    /\ calls = <<>>
    /\ poePwr = [i \in SwitchPorts |-> "Off"]
    /\ globalMacAddress = ""
    /\ PortOverrides = <<>>
    /\ RestUnused
    /\ CliUnused
    /\ LazyUnused
    /\ AuxUnused

\* a call of the client returned
Returned(op, portID, state, parsed, out) ==
    /\ cliCall' = [op |-> op, port |-> portID, state |-> state]
    /\ cliStatus' = parsed
    /\ cliOut' = out
    /\ UNCHANGED <<variant, running, phase, req, resp, bodyRead, calls,
                   globalMacAddress, PortOverrides>>
    /\ UNCHANGED gpVars
    /\ UNCHANGED restVars
    /\ UNCHANGED lazyVars
    /\ UNCHANGED auxVars

\* Client.GetPortPowerState(portID), the switch's output parsing into
\* the records parsed
CallGetPortPowerState ==
    /\ cliCall = NoCall
    /\ \E portID \in PortArgs, parsed \in Statuses, up \in BOOLEAN :
         LET status == PoEStatus(executeCommand(poePwr,
                                     Command(ShowCommand, portID), up), parsed)
             got == PortPowerState(status, portID)
         IN  /\ Returned("GetPortPowerState", portID, "", parsed,
                         [err |-> got.err, state |-> got.state,
                          cmds |-> status.cmds, dials |-> status.dials])
             /\ UNCHANGED poePwr

\* Client.SetPortPower(portID, state)
CallSetPortPower ==
    /\ cliCall = NoCall
    /\ \E portID \in PortArgs, state \in PowerStates, up \in BOOLEAN :
         LET done == SetPortPower(poePwr, portID, state, up)
         IN  /\ Returned("SetPortPower", portID, state, <<>>,
                         [err |-> done.err, state |-> "",
                          cmds |-> done.cmds, dials |-> done.dials])
             /\ poePwr' = done.sw

\* Client.RestartPortPower(portID)
CallRestartPortPower ==
    /\ cliCall = NoCall
    /\ \E portID \in PortArgs, up \in BOOLEAN :
         LET done == RestartPortPower(poePwr, portID, up)
         IN  /\ Returned("RestartPortPower", portID, "", <<>>,
                         [err |-> done.err, state |-> "",
                          cmds |-> done.cmds, dials |-> done.dials])
             /\ poePwr' = done.sw

\* the caller goes on to its next call
NextCall ==
    /\ cliCall # NoCall
    /\ cliCall' = NoCall
    /\ cliStatus' = <<>>
    /\ cliOut' = NoOut
    /\ UNCHANGED <<variant, running, phase, req, resp, bodyRead, calls,
                   poePwr, globalMacAddress, PortOverrides>>
    /\ UNCHANGED gpVars
    /\ UNCHANGED restVars
    /\ UNCHANGED lazyVars
    /\ UNCHANGED auxVars

NextClient ==
    \/ CallGetPortPowerState
    \/ CallSetPortPower
    \/ CallRestartPortPower
    \/ NextCall

SpecClient == InitClient /\ [][NextClient]_vars

(***************************************************************************)
(* SpecLazy: the controller client (lazyClient) called one method after    *)
(* another; each method logs in as lazyClient.init decides, then makes its *)
(* call at the controller                                                  *)
(***************************************************************************)
\* what a Login at the controller does: it fails, or it succeeds and the
\* controller sets a cookie named TOKEN, or it succeeds and the controller
\* sets its session cookie under another name
LoginOutcomes == {"failed", "TOKEN", "unifises"}

\* c.inner.Login: initErr is its error, and the jar keeps a TOKEN cookie
\* the controller set; with an invalid base URL no Login succeeds
Login(c, outcome) ==
    IF outcome = "failed" \/ ~c.baseOK
    THEN [c EXCEPT !.initErr = "login failed"]
    ELSE [c EXCEPT !.initErr = "",
                   !.token = (outcome = "TOKEN") \/ c.token]

\* lazyClient.isTokenExpired: the base URL does not parse, or the jar holds
\* no cookie named TOKEN for it
isTokenExpired(c) == ~c.baseOK \/ ~c.token

\* lazyClient.init, l1 and l2 being what the controller does with the
\* Login inside the once-guard and with the Login of the expired-token
\* branch: the client after it, and the Logins attempted
init(c, l1, l2) ==
    LET first ==
            IF c.once THEN [c |-> c, logins |-> 0]
            ELSE IF ~c.baseOK
            THEN [c |-> [c EXCEPT !.once = TRUE,
                                  !.initErr = "invalid base url"],
                  logins |-> 0]
            ELSE [c |-> Login([c EXCEPT !.once = TRUE], l1), logins |-> 1]
    IN  IF isTokenExpired(first.c)
        THEN [c |-> Login(first.c, l2), logins |-> first.logins + 1]
        ELSE first

\* a method of lazyClient (GetDeviceByMAC, UpdateDevice, PowerCycle): init,
\* and when init returns no error the one call of c.inner, which succeeds
\* (ok) or fails
LazyMethod(c, l1, l2, ok) ==
    LET i == init(c, l1, l2)
    IN  IF i.c.initErr # ""
        THEN [c |-> i.c,
              out |-> [err |-> i.c.initErr, logins |-> i.logins,
                       attempts |-> 0]]
        ELSE [c |-> i.c,
              out |-> [err |-> IF ok THEN "" ELSE "request failed",
                       logins |-> i.logins, attempts |-> 1]]

InitLazy ==
    /\ hdrIn = <<>>
    /\ hdrOut = NoPort
    /\ hdrDone = FALSE
    /\ variant = "controller"
    /\ running = TRUE
    /\ phase = "idle"
    /\ req = NoReq
    /\ resp = NoResp
    /\ bodyRead = FALSE
    /\ calls = <<>>
    /\ poePwr = [i \in SwitchPorts |-> "Off"]
    /\ globalMacAddress = ""
    /\ PortOverrides = <<>>
    /\ RestUnused
    /\ CliUnused
    /\ \E baseOK \in BOOLEAN : lazy = NewLazyClient(baseOK)
    /\ lazyCall = NoLazyCall
    /\ lazyOut = NoLazyOut
    /\ AuxUnused

\* a method of the controller client has returned
LazyReturned(op, mac, port, done) ==
    /\ lazy' = done.c
    /\ lazyCall' = [op |-> op, mac |-> mac, port |-> port]
    /\ lazyOut' = done.out
    /\ UNCHANGED rpcVars
    /\ UNCHANGED gpVars
    /\ UNCHANGED restVars
    /\ UNCHANGED cliVars
    /\ UNCHANGED auxVars

\* lazyClient.GetDeviceByMAC
CallLazyGetDeviceByMAC ==
    /\ lazyCall = NoLazyCall
    /\ \E mac \in MacValues \ {""}, l1 \in LoginOutcomes,
          l2 \in LoginOutcomes, ok \in BOOLEAN :
         LazyReturned("GetDeviceByMAC", mac, 0,
                      LazyMethod(lazy, l1, l2, ok))

\* lazyClient.UpdateDevice
CallLazyUpdateDevice ==
    /\ lazyCall = NoLazyCall
    /\ \E mac \in MacValues \ {""}, l1 \in LoginOutcomes,
          l2 \in LoginOutcomes, ok \in BOOLEAN :
         LazyReturned("UpdateDevice", mac, 0, LazyMethod(lazy, l1, l2, ok))

\* lazyClient.PowerCycle
CallLazyPowerCycle ==
    /\ lazyCall = NoLazyCall
    /\ \E mac \in MacValues \ {""}, port \in SwitchPorts,
          l1 \in LoginOutcomes, l2 \in LoginOutcomes, ok \in BOOLEAN :
         LazyReturned("PowerCycle", mac, port, LazyMethod(lazy, l1, l2, ok))

\* the TOKEN cookie in the jar expires
TokenExpires ==
    /\ lazyCall = NoLazyCall
    /\ lazy.token
    /\ lazy' = [lazy EXCEPT !.token = FALSE]
    /\ UNCHANGED <<lazyCall, lazyOut>>
    /\ UNCHANGED rpcVars
    /\ UNCHANGED gpVars
    /\ UNCHANGED restVars
    /\ UNCHANGED cliVars
    /\ UNCHANGED auxVars

\* the caller goes on to its next call
NextLazyCall ==
    /\ lazyCall # NoLazyCall
    /\ lazyCall' = NoLazyCall
    /\ lazyOut' = NoLazyOut
    /\ UNCHANGED lazy
    /\ UNCHANGED rpcVars
    /\ UNCHANGED gpVars
    /\ UNCHANGED restVars
    /\ UNCHANGED cliVars
    /\ UNCHANGED auxVars

NextLazy ==
    \/ CallLazyGetDeviceByMAC
    \/ CallLazyUpdateDevice
    \/ CallLazyPowerCycle
    \/ TokenExpires
    \/ NextLazyCall

SpecLazy == InitLazy /\ [][NextLazy]_vars

(***************************************************************************)
(* SpecExec: one executeCommand call after another, step by step: the      *)
(* caller dials, opens a session, starts the goroutine that runs the       *)
(* command and waits in the select; the caller's context may be cancelled  *)
(* at any point while the call is outstanding                              *)
(***************************************************************************)

\* the commands the client hands to executeCommand
ExecCommands ==
    { Command(text, portID) :
        text \in {ShowCommand, SetAutoCommand, SetOffCommand, RestartCommand},
        portID \in 1..(NumPorts + 1) }

ErrConnect == "failed to connect to SSH server"

ErrSession == "failed to create SSH session"

ErrCancelled == "command execution cancelled"

ErrCommand == "command execution failed"

InitExec ==
    /\ hdrIn = <<>>
    /\ hdrOut = NoPort
    /\ hdrDone = FALSE
    /\ RpcUnused
    /\ RestUnused
    /\ CliUnused
    /\ LazyUnused
    /\ ExecUnused
    /\ ConcUnused
    /\ RaceUnused
    /\ ParseUnused

ExecFrame == UNCHANGED <<gpVars, rpcVars, restVars, cliVars, lazyVars,
                         concVars, raceVars, parseVars>>

\* the deferred conn.Close() and session.Close(), run when the call returns
DeferredClose(resource) == IF resource = "open" THEN "closed" ELSE resource

\* the call returns err; its deferred closes run
ExecReturn(err) ==
    /\ exPc' = "returned"
    /\ exRet' = err
    /\ exSess' = DeferredClose(exSess)
    /\ exConn' = DeferredClose(exConn)

\* the client calls executeCommand(ctx, command) and enters ssh.Dial
ExecStart ==
    /\ exPc = "idle"
    /\ \E command \in ExecCommands : exCmd' = command
    /\ exPc' = "dialing"
    /\ UNCHANGED <<exCtx, exConn, exSess, exWorker, exDone, exHung, exRet>>
    /\ ExecFrame

\* ssh.Dial returns a connection; the call enters conn.NewSession
DialOK ==
    /\ exPc = "dialing"
    /\ exConn' = "open"
    /\ exPc' = "opening"
    /\ UNCHANGED <<exCmd, exCtx, exSess, exWorker, exDone, exHung, exRet>>
    /\ ExecFrame

\* ssh.Dial fails (refused, unreachable, or its own timeout)
DialFail ==
    /\ exPc = "dialing"
    /\ ExecReturn(ErrConnect)
    /\ UNCHANGED <<exCmd, exCtx, exWorker, exDone, exHung>>
    /\ ExecFrame

\* conn.NewSession returns a session; the call makes the channel, starts the
\* goroutine and waits in the select
SessionOK ==
    /\ exPc = "opening"
    /\ exSess' = "open"
    /\ exWorker' = "running"
    /\ exDone' = <<>>
    /\ exHung' \in BOOLEAN
    /\ exPc' = "running"
    /\ UNCHANGED <<exCmd, exCtx, exConn, exRet>>
    /\ ExecFrame

\* conn.NewSession fails
SessionFail ==
    /\ exPc = "opening"
    /\ ExecReturn(ErrSession)
    /\ UNCHANGED <<exCmd, exCtx, exWorker, exDone, exHung>>
    /\ ExecFrame

\* mutation: done is made without a buffer, so the send needs the caller
\* to be receiving in the select
SendReady_Unbuffered == exPc = "running"

\* the send done <- err can proceed: done has room for one element
SendReady == Len(exDone) < 1

\* the goroutine: session.CombinedOutput returns, when the remote command
\* has ended or the session was closed under it, and its error is sent on
\* done
WorkerFinish ==
    /\ exWorker = "running"
    /\ ~exHung \/ exSess = "closed"
    /\ SendReady
    /\ \E err \in IF exHung THEN {ErrCommand} ELSE {"", ErrCommand} :
          exDone' = Append(exDone, err)
    /\ exWorker' = "exited"
    /\ UNCHANGED <<exPc, exCmd, exCtx, exConn, exSess, exHung, exRet>>
    /\ ExecFrame

\* select, case <-ctx.Done()
SelectCancel ==
    /\ exPc = "running"
    /\ exCtx
    /\ ExecReturn(ErrCancelled)
    /\ UNCHANGED <<exCmd, exCtx, exWorker, exDone, exHung>>
    /\ ExecFrame

\* select, case err := <-done
SelectDone ==
    /\ exPc = "running"
    /\ exDone # <<>>
    /\ ExecReturn(Head(exDone))
    /\ exDone' = Tail(exDone)
    /\ UNCHANGED <<exCmd, exCtx, exWorker, exHung>>
    /\ ExecFrame

\* the caller's context is cancelled while the call is outstanding
Cancel ==
    /\ exPc \in {"dialing", "opening", "running"}
    /\ ~exCtx
    /\ exCtx' = TRUE
    /\ UNCHANGED <<exPc, exCmd, exConn, exSess, exWorker, exDone, exHung,
                   exRet>>
    /\ ExecFrame

\* the call has returned and its goroutine, if started, has ended: the
\* client makes its next call, with a context of its own
ExecNextCall ==
    /\ exPc = "returned"
    /\ exWorker # "running"
    /\ exPc' = "idle"
    /\ exCmd' = [text |-> "", id |-> 0]
    /\ exCtx' = FALSE
    /\ exConn' = "none"
    /\ exSess' = "none"
    /\ exWorker' = "none"
    /\ exDone' = <<>>
    /\ exHung' = FALSE
    /\ exRet' = ""
    /\ ExecFrame

NextExec ==
    \/ ExecStart
    \/ DialOK
    \/ DialFail
    \/ SessionOK
    \/ SessionFail
    \/ WorkerFinish
    \/ SelectCancel
    \/ SelectDone
    \/ Cancel
    \/ ExecNextCall

SpecExec == InitExec /\ [][NextExec]_vars

\* the goroutine is scheduled: when it can finish, it does
SpecExecFair == SpecExec /\ WF_vars(WorkerFinish)

(***************************************************************************)
(* SpecLazyConc: lazyClient.init run by concurrent callers, step by step.  *)
(* once.Do lets one caller in and holds the others until it is done; the   *)
(* expired-token branch after it takes no lock                             *)
(***************************************************************************)

InitLazyConc ==
    /\ hdrIn = <<>>
    /\ hdrOut = NoPort
    /\ hdrDone = FALSE
    /\ RpcUnused
    /\ RestUnused
    /\ CliUnused
    /\ \E baseOK \in BOOLEAN : lazy = NewLazyClient(baseOK)
    /\ lazyCall = NoLazyCall
    /\ lazyOut = NoLazyOut
    /\ ExecUnused
    /\ ConcUnused
    /\ RaceUnused
    /\ ParseUnused

ConcFrame ==
    UNCHANGED <<gpVars, rpcVars, restVars, cliVars, lazyCall, lazyOut,
                execVars, raceVars, parseVars>>

\* the callers with a Login (token refresh) in progress
LoggingIn == { p \in Callers : lzPc[p] \in {"onceLogin", "login"} }

\* a method of the client is called: the caller enters init and reaches
\* c.once.Do
EnterInit(p) ==
    /\ lzPc[p] = "idle"
    /\ lzPc' = [lzPc EXCEPT ![p] = "once"]
    /\ UNCHANGED <<lazy, lzOnceRunning>>
    /\ ConcFrame

\* once.Do runs the function for the first caller: SetBaseURL, and with a
\* valid base URL the Login begins
OnceBegin(p) ==
    /\ lzPc[p] = "once"
    /\ ~lazy.once
    /\ ~lzOnceRunning
    /\ IF lazy.baseOK
       THEN /\ lzPc' = [lzPc EXCEPT ![p] = "onceLogin"]
            /\ lzOnceRunning' = TRUE
            /\ lazy' = lazy
       ELSE /\ lzPc' = [lzPc EXCEPT ![p] = "check"]
            /\ lzOnceRunning' = FALSE
            /\ lazy' = [lazy EXCEPT !.once = TRUE,
                                    !.initErr = "invalid base url"]
    /\ ConcFrame

\* the Login inside once.Do returns; once.Do is done
OnceLoginEnd(p) ==
    /\ lzPc[p] = "onceLogin"
    /\ \E outcome \in LoginOutcomes :
          lazy' = Login([lazy EXCEPT !.once = TRUE], outcome)
    /\ lzOnceRunning' = FALSE
    /\ lzPc' = [lzPc EXCEPT ![p] = "check"]
    /\ ConcFrame

\* once.Do returns at once for a caller that finds it done
OnceSkip(p) ==
    /\ lzPc[p] = "once"
    /\ lazy.once
    /\ lzPc' = [lzPc EXCEPT ![p] = "check"]
    /\ UNCHANGED <<lazy, lzOnceRunning>>
    /\ ConcFrame

\* if c.isTokenExpired(): the Login of the expired-token branch begins
CheckToken(p) ==
    /\ lzPc[p] = "check"
    /\ lzPc' = [lzPc EXCEPT ![p] = IF isTokenExpired(lazy) THEN "login"
                                   ELSE "return"]
    /\ UNCHANGED <<lazy, lzOnceRunning>>
    /\ ConcFrame

\* the Login of the expired-token branch returns
LoginEnd(p) ==
    /\ lzPc[p] = "login"
    /\ \E outcome \in LoginOutcomes : lazy' = Login(lazy, outcome)
    /\ lzPc' = [lzPc EXCEPT ![p] = "return"]
    /\ UNCHANGED lzOnceRunning
    /\ ConcFrame

\* return initErr
ReturnInit(p) ==
    /\ lzPc[p] = "return"
    /\ lzPc' = [lzPc EXCEPT ![p] = "idle"]
    /\ UNCHANGED <<lazy, lzOnceRunning>>
    /\ ConcFrame

\* the controller's session ends: the jar's TOKEN cookie expires
ConcTokenExpires ==
    /\ lazy.token
    /\ lazy' = [lazy EXCEPT !.token = FALSE]
    /\ UNCHANGED <<lzPc, lzOnceRunning>>
    /\ ConcFrame

NextLazyConc ==
    \/ \E p \in Callers : EnterInit(p)
    \/ \E p \in Callers : OnceBegin(p)
    \/ \E p \in Callers : OnceLoginEnd(p)
    \/ \E p \in Callers : OnceSkip(p)
    \/ \E p \in Callers : CheckToken(p)
    \/ \E p \in Callers : LoginEnd(p)
    \/ \E p \in Callers : ReturnInit(p)
    \/ ConcTokenExpires

SpecLazyConc == InitLazyConc /\ [][NextLazyConc]_vars

(***************************************************************************)
(* SpecRace: two concurrent setPower calls on the same device, each in     *)
(* two steps: GetDeviceByMAC, then the change of the fetched copy and      *)
(* UpdateDevice of the whole device                                        *)
(***************************************************************************)

\* the X-Port text of port i
PortText(i) == <<CHOOSE d \in Digits : DigitVal(d) = i>>

InitRace ==
    /\ hdrIn = <<>>
    /\ hdrOut = NoPort
    /\ hdrDone = FALSE
    /\ variant = "none"
    /\ running = FALSE
    /\ phase = "idle"
    /\ req = NoReq
    /\ resp = NoResp
    /\ bodyRead = FALSE
    /\ calls = <<>>
    /\ poePwr = [i \in SwitchPorts |-> "Off"]
    /\ globalMacAddress = ""
    /\ PortOverrides \in OverrideLists
    /\ RestUnused
    /\ CliUnused
    /\ LazyUnused
    /\ ExecUnused
    /\ ConcUnused
    /\ RaceUnused
    /\ ParseUnused

RaceFrame ==
    UNCHANGED <<gpVars, variant, running, phase, req, resp, bodyRead, calls,
                poePwr, globalMacAddress, restVars, cliVars, lazyVars,
                execVars, concVars, parseVars>>

\* what setPower does with the device copy dev it fetched
SetPowerOn(c, upd) == setPower(KnownMac, c.port, c.state, c.dev, TRUE, upd)

\* setPower up to the return of GetDeviceByMAC: the call holds a copy of the
\* controller's device; a failed fetch ends the call
SetPowerFetch(p) ==
    /\ spCall[p].pc = "idle"
    /\ \E portID \in 1..NumPorts, state \in BOOLEAN, up \in BOOLEAN :
          LET failed == setPower(KnownMac, PortText(portID), state,
                                 PortOverrides, FALSE, TRUE)
          IN  spCall' = [spCall EXCEPT ![p] =
                 IF up
                 THEN [pc |-> "fetched", port |-> PortText(portID),
                       state |-> state, dev |-> PortOverrides,
                       err |-> "", wrote |-> FALSE]
                 ELSE [pc |-> "done", port |-> PortText(portID),
                       state |-> state, dev |-> <<>>,
                       err |-> failed.err, wrote |-> FALSE]]
    /\ UNCHANGED PortOverrides
    /\ RaceFrame

\* mutation: the write is a patch of the one record the call changed, applied
\* to the device the controller holds at the time of the write
SetPowerWrite_PatchRecord(p) ==
    /\ spCall[p].pc = "fetched"
    /\ \E upd \in BOOLEAN :
          LET r == SetPowerOn(spCall[p], upd)
              wrote == Len(r.calls) = 2
              i == FirstMatchIDX(PortOverrides, Atoi(spCall[p].port).n)
          IN  /\ spCall' = [spCall EXCEPT ![p].pc = "done",
                                          ![p].err = r.err,
                                          ![p].wrote = wrote /\ upd]
              /\ PortOverrides' =
                    IF wrote /\ upd /\ i # 0
                    THEN [PortOverrides EXCEPT
                             ![i].PoeMode = ModeOf(spCall[p].state)]
                    ELSE PortOverrides
    /\ RaceFrame

\* the rest of setPower: the loop over the fetched copy and, unless the
\* record has the mode already, UpdateDevice with the whole copy, which
\* replaces the controller's device when it succeeds
SetPowerWrite(p) ==
    /\ spCall[p].pc = "fetched"
    /\ \E upd \in BOOLEAN :
          LET r == SetPowerOn(spCall[p], upd)
              wrote == Len(r.calls) = 2
          IN  /\ spCall' = [spCall EXCEPT ![p].pc = "done",
                                          ![p].err = r.err,
                                          ![p].wrote = wrote /\ upd]
              /\ PortOverrides' = IF wrote /\ upd THEN r.calls[2].dev
                                  ELSE PortOverrides
    /\ RaceFrame

\* both calls are over; two more are made
RaceNextCalls ==
    /\ \A p \in SetCallers : spCall[p].pc = "done"
    /\ spCall' = [p \in SetCallers |-> NoSetCall]
    /\ UNCHANGED PortOverrides
    /\ RaceFrame

NextRace ==
    \/ \E p \in SetCallers : SetPowerFetch(p)
    \/ \E p \in SetCallers : SetPowerWrite(p)
    \/ RaceNextCalls

SpecRace == InitRace /\ [][NextRace]_vars

(***************************************************************************)
(* SpecParse: parsePoEStatus applied to one output text after another. A   *)
(* text is its lines; a line is its tokens and the white-space character   *)
(* between them; a token is a sequence of characters                       *)
(***************************************************************************)

\* strings.Join
RECURSIVE Join(_, _)
Join(tokens, sep) ==
    IF tokens = <<>> THEN <<>>
    ELSE IF Len(tokens) = 1 THEN tokens[1]
    ELSE tokens[1] \o <<sep>> \o Join(Tail(tokens), sep)

\* the characters of a line
LineText(line) == Join(line.tokens, line.sep)

\* strings.HasPrefix
HasPrefix(s, prefix) ==
    Len(s) >= Len(prefix) /\ SubSeq(s, 1, Len(prefix)) = prefix

\* strings.Contains
Contains(s, substr) ==
    \E i \in 1..(Len(s) - Len(substr) + 1) :
        SubSeq(s, i, i + Len(substr) - 1) = substr

\* strings.Split(s, c)
RECURSIVE Split(_, _)
Split(s, c) ==
    IF \A i \in 1..Len(s) : s[i] # c THEN <<s>>
    ELSE LET i == CHOOSE k \in 1..Len(s) :
                     s[k] = c /\ \A j \in 1..(k - 1) : s[j] # c
         IN  <<SubSeq(s, 1, i - 1)>> \o Split(SubSeq(s, i + 1, Len(s)), c)

LimitLabel ==
    <<"T", "o", "t", "a", "l", " ", "P", "o", "w", "e", "r", " ",
      "L", "i", "m", "i", "t">>

SeparatorPrefix == <<"-", "-", "-", "-">>

ClassPrefix == <<"C", "l", "a", "s", "s">>

ErrInsufficient == "insufficient output lines"

ErrNoDataSection == "could not find data section in output"

ErrNoPortData == "no port data found in output"

\* an index into a row's fields beyond its end: the Go runtime panics
ErrIndexPanic == "panic: index out of range"

\* status.TotalPowerLimit: the first line containing the label, split at
\* ":"; the number after the colon when there are two parts and it parses
TotalPowerLimit(lines) ==
    LET hits == {i \in 1..Len(lines) :
                    Contains(LineText(lines[i]), LimitLabel)}
    IN  IF hits = {} THEN 0
        ELSE LET first == CHOOSE i \in hits : \A j \in hits : i <= j
                 parts == Split(LineText(lines[first]), ":")
             IN  IF Len(parts) = 2 /\ Atoi(TrimSpace(parts[2])).ok
                 THEN Atoi(TrimSpace(parts[2])).n
                 ELSE 0

\* dataStartIdx, counted from 1: the line after the first line that, trimmed,
\* starts with four dashes; 0 when there is none
dataStartIdx(lines) ==
    LET seps == {i \in 1..Len(lines) :
                    HasPrefix(TrimSpace(LineText(lines[i])), SeparatorPrefix)}
    IN  IF seps = {} THEN 0
        ELSE (CHOOSE i \in seps : \A j \in seps : i <= j) + 1

\* nonEmptyFields: the csv reader splits the line at each space and nowhere
\* else, and the empty fields are dropped
nonEmptyFields(line) ==
    IF line.tokens = <<>> THEN <<>>
    ELSE IF line.sep = " " THEN line.tokens
    ELSE <<LineText(line)>>

\* strconv.ParseFloat on decimal digits with at most one point (the forms
\* the texts below contain): the whole part and the digits after the point
ParseFloat(s) ==
    LET parts == Split(s, ".")
        whole == parts[1]
        frac == IF Len(parts) = 2 THEN parts[2] ELSE <<>>
    IN  IF /\ Len(parts) <= 2
           /\ whole \o frac # <<>>
           /\ \A i \in 1..Len(whole) : whole[i] \in Digits
           /\ \A i \in 1..Len(frac) : frac[i] \in Digits
        THEN [ok |-> TRUE, whole |-> AtoiDigits(whole, 0).n, frac |-> frac]
        ELSE [ok |-> FALSE, whole |-> 0, frac |-> <<>>]

\* the position of the class field, counted from 1, after the class
\* handling: one further when the field starts with "Class" and a field
\* follows it
classIdx(f) ==
    IF HasPrefix(f[5], ClassPrefix) /\ 5 + 1 <= Len(f) THEN 6 ELSE 5

\* the PoEPortStatus of a row of at least 10 fields, all its fields being
\* within the row
portStatus(f) ==
    [Port |-> IF Atoi(f[1]).ok THEN Atoi(f[1]).n ELSE 0,
     OpMode |-> f[2],
     HpMode |-> f[3],
     PwrLimit |-> IF Atoi(f[4]).ok THEN Atoi(f[4]).n ELSE 0,
     Class |-> IF classIdx(f) = 6 THEN f[5] \o <<" ">> \o f[6] ELSE f[5],
     PoEPwr |-> f[classIdx(f) + 1],
     PwrGood |-> f[classIdx(f) + 2],
     PowerWatts |-> [whole |-> ParseFloat(f[classIdx(f) + 3]).whole,
                     frac |-> ParseFloat(f[classIdx(f) + 3]).frac],
     VoltageV |-> [whole |-> ParseFloat(f[classIdx(f) + 4]).whole,
                   frac |-> ParseFloat(f[classIdx(f) + 4]).frac],
     CurrentMA |-> [whole |-> ParseFloat(f[classIdx(f) + 5]).whole,
                    frac |-> ParseFloat(f[classIdx(f) + 5]).frac]]

\* mutation: a row of fewer than 10 fields ends the loop
RECURSIVE parseRows_StopAtShort(_, _, _)
parseRows_StopAtShort(lines, i, ports) ==
    IF i > Len(lines) THEN [panic |-> FALSE, ports |-> ports]
    ELSE LET f == nonEmptyFields(lines[i])
         IN  IF TrimSpace(LineText(lines[i])) = <<>>
             THEN parseRows_StopAtShort(lines, i + 1, ports)
             ELSE IF Len(f) < 10
             THEN [panic |-> FALSE, ports |-> ports]
             ELSE IF classIdx(f) + 5 > Len(f)
             THEN [panic |-> TRUE, ports |-> ports]
             ELSE parseRows_StopAtShort(lines, i + 1,
                                        Append(ports, portStatus(f)))

\* the row loop from line i on: blank lines and rows of fewer than 10 fields
\* are skipped; a row whose last field position is beyond its end panics
RECURSIVE parseRows(_, _, _)
parseRows(lines, i, ports) ==
    IF i > Len(lines) THEN [panic |-> FALSE, ports |-> ports]
    ELSE LET f == nonEmptyFields(lines[i])
         IN  IF TrimSpace(LineText(lines[i])) = <<>> \/ Len(f) < 10
             THEN parseRows(lines, i + 1, ports)
             ELSE IF classIdx(f) + 5 > Len(f)
             THEN [panic |-> TRUE, ports |-> ports]
             ELSE parseRows(lines, i + 1, Append(ports, portStatus(f)))

\* parsePoEStatus
parsePoEStatus(lines) ==
    LET start == dataStartIdx(lines)
        rows == parseRows(lines, start, <<>>)
        failed(err) == [err |-> err, total |-> 0, ports |-> <<>>]
    IN  IF Len(lines) < 2 THEN failed(ErrInsufficient)
        ELSE IF start = 0 \/ start > Len(lines) THEN failed(ErrNoDataSection)
        ELSE IF rows.panic THEN failed(ErrIndexPanic)
        ELSE IF rows.ports = <<>> THEN failed(ErrNoPortData)
        ELSE [err |-> "", total |-> TotalPowerLimit(lines),
              ports |-> rows.ports]

Line(sep, tokens) == [sep |-> sep, tokens |-> tokens]

BlankLine == Line(" ", <<>>)

SeparatorLine == Line(" ", <<SeparatorPrefix \o <<"-">>>>)

\* the lines before the table: none; the column titles; the total power
\* limit, with a number or with a word, and the column titles
HeaderParts ==
    LET titles == Line(" ", << <<"P", "o", "r", "t">>, <<"O", "p">> >>)
        limit(v) == Line(" ", << <<"T", "o", "t", "a", "l">>,
                                 <<"P", "o", "w", "e", "r">>,
                                 <<"L", "i", "m", "i", "t", ":">>, v >>)
    IN  { <<>>, <<titles>>, <<limit(<<"9", "0">>), titles>>,
          <<limit(<<"x">>), titles>> }

\* the table's rule, present or absent
SeparatorParts == { <<>>, <<SeparatorLine>> }

\* the lines after the rule: blank, a second rule, and rows: of 10 tokens;
\* of 11 with the class in the two tokens "Class 4"; of 11 with the class in
\* the one token "Class4"; of 10 with "Class" fifth; of 9; of 10 separated
\* by tabs; of 10 whose numbers are words
RowLines ==
    LET a == <<"A">>
        d == <<"d">>
        on == <<"O", "n">>
        g == <<"G">>
        w == <<"1", ".", "2">>
        v == <<"9">>
        m == <<"3">>
        x == <<"x">>
        lim == <<"3", "0">>
    IN  { BlankLine,
          SeparatorLine,
          Line(" ", << <<"1">>, a, d, lim, <<"4">>, on, g, w, v, m >>),
          Line(" ", << <<"2">>, a, d, lim, ClassPrefix, <<"4">>, on, g,
                       w, v, m >>),
          Line(" ", << <<"3">>, a, d, lim, ClassPrefix \o <<"4">>, on, g,
                       w, v, m, <<"0">> >>),
          Line(" ", << <<"9">>, a, d, lim, ClassPrefix, <<"4">>, on, g,
                       w, v >>),
          Line(" ", << <<"1">>, a, d, lim, <<"4">>, on, g, w, v >>),
          Line("\t", << <<"2">>, a, d, lim, <<"4">>, on, g, w, v, m >>),
          Line(" ", << x, a, d, x, <<"4">>, on, g, x, x, x >>) }

\* the texts parsed: strings.Split gives the empty text one empty line
Outputs ==
    { IF h \o s \o r = <<>> THEN <<BlankLine>> ELSE h \o s \o r :
        h \in HeaderParts, s \in SeparatorParts,
        r \in SeqsUpTo(RowLines, MaxLines) }

InitParse ==
    /\ hdrIn = <<>>
    /\ hdrOut = NoPort
    /\ hdrDone = FALSE
    /\ RpcUnused
    /\ RestUnused
    /\ CliUnused
    /\ LazyUnused
    /\ ExecUnused
    /\ ConcUnused
    /\ RaceUnused
    /\ prIn \in Outputs
    /\ prOut = NoParse
    /\ prDone = FALSE

ParseFrame ==
    UNCHANGED <<gpVars, rpcVars, restVars, cliVars, lazyVars, execVars,
                concVars, raceVars>>

\* GetPoEStatus hands the command's output to parsePoEStatus
ParseOutput ==
    /\ ~prDone
    /\ prOut' = parsePoEStatus(prIn)
    /\ prDone' = TRUE
    /\ UNCHANGED prIn
    /\ ParseFrame

NextParse == ParseOutput

SpecParse == InitParse /\ [][NextParse]_vars

(***************************************************************************)
(* SpecLegacy: bmcService.RPCHandler of package rpc, the controller        *)
(* variant's first RPC handler, serving one request after another. The     *)
(* route /device/{mac}/port/{port}/rpc supplies the MAC and the port, so   *)
(* both are present; no header is validated                                *)
(***************************************************************************)

\* bmcService.GetPower: "on" for the mode auto, "off" for off, and the empty
\* string for any other mode or for no record
bmcGetPower(macAddress, portIdx, overrides, up) ==
    LET got == getPort(macAddress, portIdx, overrides, up)
    IN  [err |-> got.err,
         state |-> IF got.err # "" THEN ""
                   ELSE IF got.port.PoeMode = "auto" THEN "on"
                   ELSE IF got.port.PoeMode = "off" THEN "off"
                   ELSE "",
         calls |-> got.calls]

\* w.WriteHeader(statusCode) and nothing more: a status with an empty body
writeHeaderOnly(statusCode) ==
    [NoResp EXCEPT !.kind = "empty", !.status = statusCode]

\* bmcService.RPCHandler. The assertions req.Params.(PowerSetParams) and
\* req.Params.(BootDeviceParams) fail on the decoded value and log.Fatalf
\* follows, as it does when GetPower fails
bmcRPCHandlerOf(r, overrides, up) ==
    LET rp == [NewResponsePayload(r) EXCEPT !.status = StatusOK]
        got == bmcGetPower(r.xmac, r.xport, overrides, up)
    IN  IF ~r.bodyOk
        THEN Wrote(writeHeaderOnly(StatusBadRequest), <<>>, TRUE)
        ELSE IF r.method = PowerGetMethod
        THEN IF got.err # "" THEN Fatal(got.calls)
             ELSE Wrote([rp EXCEPT !.result = StringResult(got.state)],
                        got.calls, TRUE)
        ELSE IF r.method = PowerSetMethod THEN Fatal(<<>>)
        ELSE IF r.method = BootDeviceMethod THEN Fatal(<<>>)
        ELSE IF r.method = PingMethod
        THEN Wrote([rp EXCEPT !.result = StringResult("pong")], <<>>, TRUE)
        ELSE Wrote([rp EXCEPT !.status = StatusNotFound], <<>>, TRUE)

InitLegacy ==
    /\ RestUnused
    /\ CliUnused
    /\ LazyUnused
    /\ AuxUnused
    /\ hdrIn = <<>>
    /\ hdrOut = NoPort
    /\ hdrDone = FALSE
    /\ running = TRUE
    /\ phase = "idle"
    /\ req = NoReq
    /\ resp = NoResp
    /\ bodyRead = FALSE
    /\ calls = <<>>
    /\ variant = "legacy"
    /\ poePwr = [i \in SwitchPorts |-> "Off"]
    /\ globalMacAddress = ""
    /\ PortOverrides \in OverrideLists

\* the legacy handler serves a request of its route
bmcRPCHandler ==
    /\ variant = "legacy"
    /\ running
    /\ phase = "idle"
    /\ \E r \in {q \in Requests : q.xmac # "" /\ q.xport # <<>>},
          up \in BOOLEAN :
         LET o == bmcRPCHandlerOf(r, PortOverrides, up)
         IN  /\ req' = r
             /\ resp' = o.resp
             /\ calls' = o.calls
             /\ bodyRead' = o.bodyRead
             /\ running' = ~o.exit
    /\ phase' = "responded"
    /\ UNCHANGED <<variant, poePwr, globalMacAddress, PortOverrides>>
    /\ UNCHANGED gpVars
    /\ UNCHANGED restVars
    /\ UNCHANGED cliVars
    /\ UNCHANGED lazyVars
    /\ UNCHANGED auxVars

NextLegacy == bmcRPCHandler \/ NextRequest

SpecLegacy == InitLegacy /\ [][NextLegacy]_vars

(***************************************************************************)
(* What a header value denotes, stated without the parsing code            *)
(***************************************************************************)
RECURSIVE Pow10(_)
Pow10(k) == IF k = 0 THEN 1 ELSE 10 * Pow10(k - 1)

\* t is h without its leading and trailing white space: t = SubSeq(h, a, b)
IsTrim(h, a, b) ==
    /\ a <= b + 1
    /\ \A i \in 1..(a - 1) : h[i] \in Space
    /\ \A i \in (b + 1)..Len(h) : h[i] \in Space
    /\ a <= b => (h[a] \notin Space /\ h[b] \notin Space)

\* the digits of a decimal numeral t: t without its sign
NumeralDigits(t) ==
    IF t # <<>> /\ t[1] \in {"+", "-"} THEN SubSeq(t, 2, Len(t)) ELSE t

\* t is a base-10 integer: an optional sign and at least one digit
IsNumeral(t) ==
    /\ NumeralDigits(t) # <<>>
    /\ \A i \in 1..Len(NumeralDigits(t)) : NumeralDigits(t)[i] \in Digits

\* the sum of digit * 10^position over the positions from i on
RECURSIVE PositionalSum(_, _)
PositionalSum(d, i) ==
    IF i > Len(d) THEN 0
    ELSE DigitVal(d[i]) * Pow10(Len(d) - i) + PositionalSum(d, i + 1)

\* the integer the numeral t denotes
NumeralValue(t) ==
    IF t[1] = "-" THEN 0 - PositionalSum(NumeralDigits(t), 1)
    ELSE PositionalSum(NumeralDigits(t), 1)

\* the header value h, trimmed, is the numeral of an integer >= 1
IsPortHeader(h) ==
    \E a \in 1..(Len(h) + 1), b \in 0..Len(h) :
        /\ IsTrim(h, a, b)
        /\ IsNumeral(SubSeq(h, a, b))
        /\ NumeralValue(SubSeq(h, a, b)) >= 1

\* the port a port header denotes
HeaderPort(h) ==
    LET ab == CHOOSE ab \in (1..(Len(h) + 1)) \X (0..Len(h)) :
                  IsTrim(h, ab[1], ab[2])
    IN  NumeralValue(SubSeq(h, ab[1], ab[2]))

(***************************************************************************)
(* Claims                                                                  *)
(***************************************************************************)
\* C1: GetPort returns port p exactly when the trimmed X-Port value is a
\* base-10 integer p >= 1; an empty (or absent) value fails with
\* MissingPort, a non-empty value that is no integer with InvalidPort, and
\* an integer below 1 with NonPositivePort.
C1_GetPortContract ==
    hdrDone =>
        /\ hdrIn = <<>> => hdrOut.err = "MissingPort"
        /\ \A a \in 1..(Len(hdrIn) + 1), b \in 0..Len(hdrIn) :
             (hdrIn # <<>> /\ IsTrim(hdrIn, a, b)) =>
                LET t == SubSeq(hdrIn, a, b)
                IN  IF ~IsNumeral(t) THEN hdrOut.err = "InvalidPort"
                    ELSE IF NumeralValue(t) < 1
                    THEN hdrOut.err = "NonPositivePort"
                    ELSE hdrOut = [err |-> "none", port |-> NumeralValue(t)]
        /\ hdrOut.err = "none" =>
             (IsPortHeader(hdrIn) /\ hdrOut.port = HeaderPort(hdrIn))
        /\ hdrOut.err \in {"none", "MissingPort", "InvalidPort",
                           "NonPositivePort"}

\* C1 witness: " 12" was trimmed, parsed and returned as port 12
C1_Witness ==
    /\ hdrDone
    /\ hdrIn = <<" ", "1", "2">>
    /\ hdrOut = [err |-> "none", port |-> 12]

\* a request of the SSH variant got past header and body validation and
\* its RPC response was written
SshDispatched ==
    /\ variant = "ssh"
    /\ phase = "responded"
    /\ resp.kind = "rpc"

\* C2: in the SSH variant, power.get queries exactly the port of the X-Port
\* header, once, and answers "on" with HTTP 200 when the backend reports
\* that port on, and "off" with HTTP 200 when it reports it off.
C2_PowerGetOnOff ==
    (SshDispatched /\ req.method = PowerGetMethod) =>
        /\ Len(calls) = 1
        /\ calls[1].op = "GetPortPowerState"
        /\ calls[1].port = HeaderPort(req.xport)
        /\ (HeaderPort(req.xport) \in SwitchPorts
              /\ poePwr[HeaderPort(req.xport)] \in {"On", "Off"}) =>
             \/ calls[1].err = "failed to get PoE status"
             \/ /\ calls[1].err = ""
                /\ calls[1].ret = IF poePwr[HeaderPort(req.xport)] = "On"
                                  THEN "PowerOn" ELSE "PowerOff"
        /\ (calls[1].err = "" /\ calls[1].ret = "PowerOn") =>
             /\ resp.result = StringResult("on")
             /\ resp.errCode = 0
             /\ resp.status = StatusOK
        /\ (calls[1].err = "" /\ calls[1].ret = "PowerOff") =>
             /\ resp.result = StringResult("off")
             /\ resp.errCode = 0
             /\ resp.status = StatusOK

\* C2 witness: power.get for port 2, which the switch reports on
C2_Witness ==
    /\ SshDispatched
    /\ req.method = PowerGetMethod
    /\ req.xport = <<"2">>
    /\ poePwr[2] = "On"
    /\ resp.result = StringResult("on")
    /\ resp.status = StatusOK

\* C3: whatever power state the backend reports (on, off, powering-on,
\* powering-off), the result of power.get is "on" or "off", never another
\* value such as "unknown" or the empty string.
C3_ResultIsOnOrOff ==
    (phase = "responded" /\ resp.kind = "rpc" /\ req.method = PowerGetMethod
        /\ resp.result.set) =>
        resp.result.val \in {"on", "off"}

\* C4: in the SSH variant, power.set "soft" makes the backend call of "off"
\* (SetPortPower with PowerOff), "on" makes SetPortPower with PowerOn, and
\* "cycle" and "reset" make exactly one RestartPortPower call and no
\* SetPortPower call; each on the port of the X-Port header.
C4_PowerSetMapping ==
    (SshDispatched /\ req.method = PowerSetMethod) =>
        LET st == req.params.state
            only(op, ps) ==
                /\ Len(calls) = 1
                /\ calls[1].op = op
                /\ calls[1].state = ps
                /\ calls[1].port = HeaderPort(req.xport)
        IN  /\ (req.params.kind # "scalar" /\ st \in {"off", "soft"}) =>
                only("SetPortPower", "PowerOff")
            /\ (req.params.kind # "scalar" /\ st = "on") =>
                only("SetPortPower", "PowerOn")
            /\ (req.params.kind # "scalar" /\ st \in {"cycle", "reset"}) =>
                only("RestartPortPower", "-")

\* C4 witness: power.set "soft" called SetPortPower with PowerOff, and the
\* switch turned the port off
C4_Witness ==
    /\ SshDispatched
    /\ req.method = PowerSetMethod
    /\ req.params.state = "soft"
    /\ calls = <<Call("SetPortPower", 1, "PowerOff", "", "-")>>
    /\ poePwr[1] = "Off"

\* the state tokens power.set accepts
ValidStates == {"on", "off", "soft", "reset", "cycle"}

\* C5: a power.set request whose state is none of on, off, soft, reset,
\* cycle is answered with error.code 400 and HTTP 400, no backend call is
\* made, and the backend is left as it was.
C5_InvalidStateRejected ==
    [][(phase = "idle" /\ phase' = "responded" /\ variant = "ssh"
        /\ resp'.kind = "rpc" /\ req'.method = PowerSetMethod
        /\ ~(req'.params.kind = "object" /\ req'.params.state \in ValidStates))
       => (/\ resp'.errCode = StatusBadRequest
           /\ resp'.status = StatusBadRequest
           /\ ~resp'.result.set
           /\ calls' = <<>>
           /\ poePwr' = poePwr)]_vars

\* C5 witness: power.set "bogus" for port 1 was answered 400 without a call
C5_Witness ==
    /\ SshDispatched
    /\ req.method = PowerSetMethod
    /\ req.params.state = "bogus"
    /\ req.xport = <<"1">>
    /\ resp.errCode = StatusBadRequest
    /\ calls = <<>>

\* C6: a request whose method is none of power.get, power.set, boot.device
\* and ping is answered with a populated error of code 404, no result,
\* HTTP 404, and no backend call.
C6_UnknownMethod404 ==
    (phase = "responded" /\ resp.kind = "rpc"
        /\ req.method \notin {PowerGetMethod, PowerSetMethod,
                              BootDeviceMethod, PingMethod}) =>
        /\ resp.errCode = StatusNotFound
        /\ resp.errMsg # ""
        /\ ~resp.result.set
        /\ resp.status = StatusNotFound
        /\ calls = <<>>

\* C7: every RPC response for a request that passed header and body
\* validation has exactly one of result and error populated.
C7_ExactlyOneOfResultError ==
    SshDispatched => (resp.result.set # (resp.errCode # 0))

HeaderMissing ==
    \/ req.xport = <<>>
    \/ variant = "controller" /\ req.xmac = "" /\ globalMacAddress = ""

\* the request was rejected by header validation: an HTTP 400 with a JSON
\* {error: message} body, the request body unread and no backend called
RejectedByHeaders ==
    /\ resp.kind = "error"
    /\ resp.status = StatusBadRequest
    /\ resp.errMsg # ""
    /\ ~bodyRead
    /\ calls = <<>>

\* C9 as claimed: a request missing a required header is rejected with
\* HTTP 400 and {error: message} before the body is read and without a
\* backend call; a request carrying all required headers is not rejected
\* by header validation.
C9_Original ==
    phase = "responded" =>
        /\ HeaderMissing => RejectedByHeaders
        /\ ~HeaderMissing => ~(resp.kind = "error" /\ ~bodyRead)

\* C9 amended: as claimed, except that the SSH variant also validates the
\* value of X-Port at this stage: a request carrying all required headers
\* is not rejected by header validation provided that, in the SSH variant,
\* its X-Port value trimmed is a base-10 integer >= 1; any other X-Port
\* value is rejected there like a missing one.
C9_HeaderValidation ==
    phase = "responded" =>
        /\ HeaderMissing => RejectedByHeaders
        /\ (~HeaderMissing /\ (variant = "ssh" => IsPortHeader(req.xport)))
             => ~(resp.kind = "error" /\ ~bodyRead)
        /\ (variant = "ssh" /\ ~IsPortHeader(req.xport)) => RejectedByHeaders

\* C9 witness: the controller variant, no global MAC configured, rejected
\* a request that carried X-Port but no X-MAC-Address
C9_Witness ==
    /\ phase = "responded"
    /\ variant = "controller"
    /\ globalMacAddress = ""
    /\ req.xmac = ""
    /\ req.xport = <<"1">>
    /\ req.bodyOk
    /\ RejectedByHeaders

\* C10: a header value that is blank after trimming is rejected with the
\* MissingPort error of an absent header, not with InvalidPort.
C10_BlankIsMissing ==
    (hdrDone /\ \A i \in 1..Len(hdrIn) : hdrIn[i] \in Space) =>
        hdrOut.err = "MissingPort"

\* the device identifier the request addresses: the X-MAC-Address header
\* when it is present, otherwise the configured global device MAC
AddressedDevice == IF req.xmac # "" THEN req.xmac ELSE globalMacAddress

\* the request was rejected for a missing device
MissingDevice ==
    /\ resp.kind = "error"
    /\ resp.status = StatusBadRequest
    /\ resp.errMsg =
         "Missing X-MAC-Address header and no global device MAC address configured"

\* C11: in the controller variant every backend call of a request is made
\* for the X-MAC-Address header when it is present (even if a global device
\* MAC is configured), otherwise for the configured global device MAC; the
\* request is rejected for a missing device exactly when the header and the
\* global value are both absent.
C11_DeviceAddressing ==
    phase = "responded" =>
        /\ \A i \in 1..Len(calls) : calls[i].state = AddressedDevice
        /\ MissingDevice <=> (req.xmac = "" /\ globalMacAddress = "")

\* C11 witness: with the global MAC configured, a status request carrying
\* another X-MAC-Address fetched the device of the header
C11_Witness ==
    /\ phase = "responded"
    /\ route = "status"
    /\ globalMacAddress = KnownMac
    /\ req.xmac = "00:00:00:00:00:01"
    /\ Len(calls) = 1
    /\ calls[1].op = "GetDeviceByMAC"
    /\ calls[1].state = "00:00:00:00:00:01"

\* the X-Port value names no port: trimmed of white space it is not a
\* base-10 integer (it is non-numeric, blank or absent)
InvalidPortHeader(h) ==
    ~\E a \in 1..(Len(h) + 1), b \in 0..Len(h) :
        IsTrim(h, a, b) /\ IsNumeral(SubSeq(h, a, b))

\* C12: a request whose port identifier is invalid (non-numeric or
\* otherwise unparsable) is rejected before any backend call: whichever
\* handler serves it, no backend call is made for it.
C12_InvalidPortRejected ==
    (phase = "responded" /\ InvalidPortHeader(req.xport)) => calls = <<>>

\* the request is a power-on or power-off call that fetched the device
PowerCall == phase = "responded" /\ route \in {"on", "off"}

\* the override record of the request's port in the device as the
\* request's GetDeviceByMAC returned it, NoOverride when there is none
FetchedRecord ==
    LET dev == calls[1].dev
        i == FirstMatchIDX(dev, Atoi(req.xport).n)
    IN  IF i = 0 THEN NoOverride ELSE dev[i]

\* C13: a controller-variant power-on (power-off) call that finds the
\* port's override record already in mode "auto" ("off") returns success
\* without calling UpdateDevice and leaves the device as it was; and of two
\* successive calls with the same target state on the same port, the first
\* finding the record in another mode and succeeding, the first calls
\* UpdateDevice once and the second not at all.
C13_SetPowerIdempotent ==
    PowerCall =>
        /\ (/\ Len(calls) >= 1
            /\ calls[1].err = ""
            /\ FetchedRecord # NoOverride
            /\ FetchedRecord.PoeMode = ModeOf(route = "on")) =>
               /\ resp = writeStatus(IF route = "on" THEN "power on successful"
                                     ELSE "power off successful")
               /\ UpdateCalls(calls) = {}
               /\ PortOverrides = calls[1].dev
        /\ (/\ prev.route = route
            /\ prev.mac = AddressedDevice
            /\ Atoi(req.xport).ok
            /\ prev.port = Atoi(req.xport).n
            /\ prev.was # ModeOf(route = "on")) =>
               /\ prev.updates = 1
               /\ UpdateCalls(calls) = {}

\* C13 witness: port 2 was off; a power-on call wrote the device once, and
\* the power-on call after it found the record in mode auto, wrote nothing
\* and answered success
C13_Witness ==
    /\ PowerCall
    /\ route = "on"
    /\ req.xport = <<"2">>
    /\ prev = [route |-> "on", mac |-> KnownMac, port |-> 2, was |-> "off",
               updates |-> 1]
    /\ Len(calls) = 1
    /\ FetchedRecord.PoeMode = "auto"
    /\ resp = writeStatus("power on successful")

\* a power.get request of the controller variant passed header and body
\* validation and GetPower was called for it
CtlPowerGet ==
    /\ variant = "controller"
    /\ phase = "responded"
    /\ validateHeaders(req, globalMacAddress) = ""
    /\ req.bodyOk
    /\ req.method = PowerGetMethod

\* GetPower returned an error (RpcHandler then ends in log.Fatalf)
GetPowerFailed == ~running

\* the device could not be fetched: GetDeviceByMAC was called and failed
DeviceNotFound == calls # <<>> /\ calls[1].err # ""

\* the first override record whose index is the integer the X-Port value
\* denotes has mode "auto"
PortRecordIsAuto ==
    /\ IsNumeral(req.xport)
    /\ \E i \in 1..Len(PortOverrides) :
          /\ PortOverrides[i].PortIDX = NumeralValue(req.xport)
          /\ \A j \in 1..(i - 1) :
                PortOverrides[j].PortIDX # NumeralValue(req.xport)
          /\ PortOverrides[i].PoeMode = "auto"

\* C14 as claimed: GetPower fails when the device is not found; otherwise
\* it never fails because of the port, and returns "on" exactly when the
\* override record matching the port index has mode "auto", and "off" for
\* mode "off", for any other mode and when no record matches.
C14_Original ==
    CtlPowerGet =>
        /\ DeviceNotFound => GetPowerFailed
        /\ ~DeviceNotFound =>
              /\ ~GetPowerFailed
              /\ resp.result =
                    StringResult(IF PortRecordIsAuto THEN "on" ELSE "off")

\* C14 amended: GetPower fails when the device is not found, and it fails,
\* before the device is fetched, when the port identifier does not parse
\* as a base-10 integer; otherwise it does not fail, and returns "on"
\* exactly when the first override record matching the port index has mode
\* "auto", and "off" for mode "off", for any other mode and when no record
\* matches.
C14_GetPower ==
    CtlPowerGet =>
        /\ DeviceNotFound => GetPowerFailed
        /\ ~IsNumeral(req.xport) => (GetPowerFailed /\ calls = <<>>)
        /\ (IsNumeral(req.xport) /\ ~DeviceNotFound) =>
              /\ ~GetPowerFailed
              /\ Len(calls) = 1
              /\ calls[1].op = "GetDeviceByMAC"
              /\ resp.result =
                    StringResult(IF PortRecordIsAuto THEN "on" ELSE "off")

\* C14 witness: the device has override records for ports 1 and 2 only,
\* and power.get for port 3 answered "off"
C14_Witness ==
    /\ CtlPowerGet
    /\ running
    /\ req.xport = <<"3">>
    /\ Len(PortOverrides) = 2
    /\ calls[1].err = ""
    /\ resp.result = StringResult("off")

\* a call of the SSH client's method op has returned
ClientReturned(op) == cliCall.op = op

\* the records of the parsed status whose port number is the requested one
MatchingRecords ==
    {i \in 1..Len(cliStatus) : cliStatus[i].Port = cliCall.port}

\* the first of them
FirstMatchingRecord ==
    cliStatus[CHOOSE i \in MatchingRecords :
                 \A j \in MatchingRecords : i <= j]

\* the power state a flag names, whatever its letter case; "" when it
\* names none
StateNamedBy(flag) ==
    IF flag \in {"On", "ON"} THEN "PowerOn"
    ELSE IF flag = "Off" THEN "PowerOff"
    ELSE IF flag = "Powering On" THEN "PoweringOn"
    ELSE IF flag = "Powering Off" THEN "PoweringOff"
    ELSE ""

\* C15: when GetPortPowerState has obtained a parsed status, it returns a
\* port-not-found error if no record has the requested port number, an
\* unknown-power-state error if the first matching record's power flag is
\* none of on, off, powering on, powering off in any letter case, and
\* otherwise, without error, the state that flag names.
C15_GetPortPowerState ==
    (ClientReturned("GetPortPowerState")
        /\ cliOut.err # "failed to get PoE status") =>
        /\ cliStatus # <<>>
        /\ MatchingRecords = {} =>
              cliOut.err = "port not found in status"
        /\ (MatchingRecords # {}
              /\ StateNamedBy(FirstMatchingRecord.PoEPwr) = "") =>
              cliOut.err = "unknown power state"
        /\ (MatchingRecords # {}
              /\ StateNamedBy(FirstMatchingRecord.PoEPwr) # "") =>
              /\ cliOut.err = ""
              /\ cliOut.state = StateNamedBy(FirstMatchingRecord.PoEPwr)

\* C15 witness: the status holds two records of port 1, the first with
\* flag "ON" and the second "Off"; the call returned PowerOn
C15_Witness ==
    /\ ClientReturned("GetPortPowerState")
    /\ cliCall.port = 1
    /\ cliStatus = <<[Port |-> 1, PoEPwr |-> "ON"],
                     [Port |-> 1, PoEPwr |-> "Off"]>>
    /\ cliOut.err = ""
    /\ cliOut.state = "PowerOn"

\* the four PowerState constants
KnownPowerStates == {"PowerOn", "PoweringOn", "PowerOff", "PoweringOff"}

\* C16: SetPortPower with one of the four states hands exactly one command
\* to executeCommand: "swctrl poe set auto id <port>" for PowerOn and
\* PoweringOn, "swctrl poe set off id <port>" for PowerOff and
\* PoweringOff, <port> being the requested port.
C16_SetPortPowerCommand ==
    (ClientReturned("SetPortPower") /\ cliCall.state \in KnownPowerStates) =>
        /\ cliOut.cmds =
              <<[text |-> IF cliCall.state \in {"PowerOn", "PoweringOn"}
                          THEN "swctrl poe set auto id"
                          ELSE "swctrl poe set off id",
                 id |-> cliCall.port]>>
        /\ cliOut.dials = 1

\* C16 witness: SetPortPower(2, PoweringOn) issued "swctrl poe set auto
\* id 2" and the switch turned port 2 on
C16_Witness ==
    /\ ClientReturned("SetPortPower")
    /\ cliCall.state = "PoweringOn"
    /\ cliCall.port = 2
    /\ cliOut.err = ""
    /\ cliOut.cmds = <<[text |-> "swctrl poe set auto id", id |-> 2]>>
    /\ poePwr[2] = "On"

\* C17: SetPortPower with a state that is none of PowerOn, PoweringOn,
\* PowerOff, PoweringOff returns an unsupported-power-state error without
\* opening an SSH connection and without issuing a command, and the switch
\* is left as it was.
C17_UnsupportedState ==
    [][(cliCall = NoCall /\ cliCall'.op = "SetPortPower"
          /\ cliCall'.state \notin KnownPowerStates)
       => (/\ cliOut'.err = "unsupported power state"
           /\ cliOut'.cmds = <<>>
           /\ cliOut'.dials = 0
           /\ poePwr' = poePwr)]_vars

\* C17 witness: SetPortPower(1, PowerState(4)) returned the error with no
\* connection and no command
C17_Witness ==
    /\ ClientReturned("SetPortPower")
    /\ cliCall.state = "PowerState(4)"
    /\ cliCall.port = 1
    /\ cliOut.err = "unsupported power state"
    /\ cliOut.dials = 0

\* C18: RestartPortPower hands exactly one command to executeCommand,
\* "swctrl poe restart id <port>" for the requested port; it issues no
\* set-off and no set-auto command.
C18_RestartOneCommand ==
    ClientReturned("RestartPortPower") =>
        /\ cliOut.cmds =
              <<[text |-> "swctrl poe restart id", id |-> cliCall.port]>>
        /\ cliOut.dials = 1
        /\ \A i \in 1..Len(cliOut.cmds) :
              cliOut.cmds[i].text \notin {"swctrl poe set off id",
                                          "swctrl poe set auto id"}

\* C18 witness: RestartPortPower(1) issued the restart command and
\* succeeded
C18_Witness ==
    /\ ClientReturned("RestartPortPower")
    /\ cliCall.port = 1
    /\ cliOut.err = ""
    /\ cliOut.cmds = <<[text |-> "swctrl poe restart id", id |-> 1]>>

\* C19: no backend operation is retried: within one call of the client a
\* request is served by, each operation at the backend (the login and the
\* device call of the controller client) is attempted at most once, and a
\* failed attempt is returned as the call's error.
C19_NoRetry ==
    lazyCall # NoLazyCall =>
        /\ lazyOut.logins <= 1
        /\ lazyOut.attempts <= 1

\* C20: a request-level error (a backend failure on power.get or
\* power.set, an invalid state, params of the wrong shape) never ends the
\* server process: whenever a handler has finished with a request the
\* server is running, and it has written that request's response.
C20_ServerSurvives ==
    phase = "responded" =>
        /\ running
        /\ resp.kind # "none"

(***************************************************************************)
(* C21: cancellation of an outstanding executeCommand call                 *)
(***************************************************************************)

\* the call is outstanding: made and not yet returned
ExecOutstanding == exPc \in {"dialing", "opening", "running"}

\* C21: once the caller's context is cancelled while the call is
\* outstanding, in whichever phase, the caller's next step is the return
\* with the cancellation error (or, while the command runs, with the result
\* the command had already delivered), and the session and the connection
\* the call opened are closed, not left open
C21_CancelReturnsPromptly ==
    [][ (exCtx /\ ExecOutstanding /\ exPc' # exPc)
        => /\ exPc' = "returned"
           /\ \/ exRet' = ErrCancelled
              \/ exPc = "running" /\ exDone # <<>>
           /\ exSess' # "open"
           /\ exConn' # "open" ]_vars

(***************************************************************************)
(* C22: re-authentication of the controller client is mutually exclusive   *)
(***************************************************************************)

\* C22: among the concurrent callers of the controller client, at most one
\* Login (token refresh) is in progress at any time
C22_OneLoginAtATime == Cardinality(LoggingIn) <= 1

(***************************************************************************)
(* C23: setPower is a read-modify-write of the whole device, not atomic    *)
(***************************************************************************)

\* the record of the port a call addressed, in a list of overrides
RecordOf(overrides, c) ==
    LET i == FirstMatchIDX(overrides, Atoi(c.port).n)
    IN  IF i = 0 THEN NoOverride ELSE overrides[i]

\* a call's change is lost: it wrote its mode to a record of its port, and
\* the controller's device no longer has that mode there
ChangeLost(p) ==
    /\ spCall[p].pc = "done"
    /\ spCall[p].err = ""
    /\ spCall[p].wrote
    /\ RecordOf(spCall[p].dev, spCall[p]) # NoOverride
    /\ RecordOf(PortOverrides, spCall[p]).PoeMode # ModeOf(spCall[p].state)

\* C23: a successful write of a setPower call replaces the controller's
\* whole device by the copy the call fetched earlier, with the mode of the
\* call's own record changed and every other record as it was at the fetch,
\* whatever the other call has written since
C23_WholeDeviceWrite ==
    [][ \A p \in SetCallers :
          (spCall[p].pc = "fetched" /\ spCall'[p].pc = "done"
               /\ spCall'[p].wrote)
          => LET i == FirstMatchIDX(spCall[p].dev, Atoi(spCall[p].port).n)
             IN  PortOverrides' =
                    IF i = 0 THEN spCall[p].dev
                    ELSE [spCall[p].dev EXCEPT
                             ![i].PoeMode = ModeOf(spCall[p].state)] ]_vars

\* both calls fetched before either wrote, on different ports; both returned
\* success, and the device shows only one of the two changes
C23_Witness ==
    /\ \A p \in SetCallers : spCall[p].pc = "done" /\ spCall[p].err = ""
                                /\ spCall[p].wrote
    /\ spCall[1].port # spCall[2].port
    /\ spCall[1].dev = spCall[2].dev
    /\ \E p \in SetCallers : ChangeLost(p)
    /\ \E p \in SetCallers : ~ChangeLost(p)

(***************************************************************************)
(* C24..C26: the CLI output parser                                         *)
(***************************************************************************)

\* a separator row: a line whose first token is a run of dashes
IsSeparatorRow(line) ==
    /\ line.tokens # <<>>
    /\ \A i \in 1..Len(line.tokens[1]) : line.tokens[1][i] = "-"

\* the position of the first separator row of a text, 0 when it has none
SeparatorAt(lines) ==
    IF \A i \in 1..Len(lines) : ~IsSeparatorRow(lines[i]) THEN 0
    ELSE CHOOSE i \in 1..Len(lines) :
            /\ IsSeparatorRow(lines[i])
            /\ \A j \in 1..(i - 1) : ~IsSeparatorRow(lines[j])

\* the lines after the separator row
AfterSeparator(lines) == SubSeq(lines, SeparatorAt(lines) + 1, Len(lines))

\* header lines, a separator row, and N >= 1 data rows of at least 10
\* tokens each
IsTable(lines) ==
    /\ SeparatorAt(lines) # 0
    /\ AfterSeparator(lines) # <<>>
    /\ \A k \in 1..Len(AfterSeparator(lines)) :
          Len(AfterSeparator(lines)[k].tokens) >= 10

\* the number a token denotes as an integer field, 0 when it is no numeral
IntegerField(t) == IF IsNumeral(t) THEN NumeralValue(t) ELSE 0

\* the number a token of digits around at most one point denotes, as its
\* whole part and the digits after the point; zero when it is no such token
DecimalField(t) ==
    LET points == {i \in 1..Len(t) : t[i] = "."}
        k == IF points = {} THEN Len(t) + 1 ELSE CHOOSE i \in points : TRUE
        whole == SubSeq(t, 1, k - 1)
        frac == SubSeq(t, k + 1, Len(t))
    IN  IF /\ Cardinality(points) <= 1
           /\ whole \o frac # <<>>
           /\ \A i \in 1..Len(whole) : whole[i] \in Digits
           /\ \A i \in 1..Len(frac) : frac[i] \in Digits
        THEN [whole |-> IF whole = <<>> THEN 0 ELSE PositionalSum(whole, 1),
              frac |-> frac]
        ELSE [whole |-> 0, frac |-> <<>>]

\* the record's first four fields are the row's first four tokens
LeadingFieldsMatch(rec, t) ==
    /\ rec.Port = IntegerField(t[1])
    /\ rec.OpMode = t[2]
    /\ rec.HpMode = t[3]
    /\ rec.PwrLimit = IntegerField(t[4])

\* the record's fields from the PoE power flag on are the row's tokens from
\* position at on
TrailingFieldsMatch(rec, t, at) ==
    /\ rec.PoEPwr = t[at]
    /\ rec.PwrGood = t[at + 1]
    /\ rec.PowerWatts = DecimalField(t[at + 2])
    /\ rec.VoltageV = DecimalField(t[at + 3])
    /\ rec.CurrentMA = DecimalField(t[at + 4])

\* C24: for a text of header lines, a separator row and N >= 1 data rows of
\* at least 10 tokens each, the parse succeeds and returns exactly N port
\* records in the rows' order; each record's port, op mode, hp mode and
\* power limit are the row's first four tokens, and for a row whose class is
\* one token that does not begin with "Class" the class and the five fields
\* after it are the tokens at positions five to ten
C24_TableParsed ==
    (prDone /\ IsTable(prIn))
    => /\ prOut.err = ""
       /\ Len(prOut.ports) = Len(AfterSeparator(prIn))
       /\ \A k \in 1..Len(AfterSeparator(prIn)) :
             LET t == AfterSeparator(prIn)[k].tokens
                 rec == prOut.ports[k]
             IN  /\ LeadingFieldsMatch(rec, t)
                 /\ ~HasPrefix(t[5], ClassPrefix)
                       => rec.Class = t[5] /\ TrailingFieldsMatch(rec, t, 6)

\* the errors of a text that is no table at all
MalformedOutput == {ErrNoDataSection, ErrInsufficient}

\* the error of a table without a usable row
EmptyResult == ErrNoPortData

\* C25: a text with no separator row fails with the MalformedOutput error; a
\* text with a separator row after which every line is blank or has fewer
\* than 10 tokens fails with the EmptyResult error; a failed parse returns
\* no status, not a partial one
C25_FailureModes ==
    prDone
    => /\ SeparatorAt(prIn) = 0 => prOut.err \in MalformedOutput
       /\ (/\ SeparatorAt(prIn) # 0
           /\ \A k \in 1..Len(AfterSeparator(prIn)) :
                 Len(AfterSeparator(prIn)[k].tokens) < 10)
          => prOut.err = EmptyResult
       /\ prOut.err # "" => prOut.ports = <<>> /\ prOut.total = 0

\* C26: in a parsed table whose rows all became records, a row whose fifth
\* token is the word "Class" has the class "Class" and the sixth token, and
\* its five later fields one position on; every other row, also one whose
\* fifth token only begins with "Class", has its fifth token as the class
\* and the five later fields at positions six to ten
C26_ClassHandling ==
    (prDone /\ IsTable(prIn) /\ prOut.err = ""
        /\ Len(prOut.ports) = Len(AfterSeparator(prIn)))
    => \A k \in 1..Len(AfterSeparator(prIn)) :
          LET t == AfterSeparator(prIn)[k].tokens
              rec == prOut.ports[k]
          IN  IF t[5] = ClassPrefix
              THEN /\ rec.Class = t[5] \o <<" ">> \o t[6]
                   /\ TrailingFieldsMatch(rec, t, 7)
              ELSE /\ rec.Class = t[5]
                   /\ TrailingFieldsMatch(rec, t, 6)

(***************************************************************************)
(* C27..C30: ping, the device header, the echoed id and host, boot.device  *)
(***************************************************************************)

\* a request got past header and body validation and its RPC response was
\* written, in either variant
Dispatched ==
    /\ phase = "responded"
    /\ resp.kind = "rpc"

\* C27: a ping request that reaches the method switch is answered with the
\* result "pong", no error and HTTP 200, and no backend call is made,
\* whatever state the backend is in and whether or not it can be reached
C27_PingPong ==
    (Dispatched /\ req.method = PingMethod) =>
        /\ resp.result = StringResult("pong")
        /\ resp.errCode = 0
        /\ resp.status = StatusOK
        /\ calls = <<>>

\* C27 witness: the SSH variant answered a ping while the switch has a port
\* that an earlier request powered on
C27_Witness ==
    /\ SshDispatched
    /\ req.method = PingMethod
    /\ resp.result = StringResult("pong")
    /\ \E i \in SwitchPorts : poePwr[i] = "On"
    /\ calls = <<>>

\* C28: a ping request with a valid port header and a readable body is not
\* rejected for a missing device: not when it carries no device header and
\* no global device is configured either
C28_PingNeedsNoDevice ==
    (/\ phase = "responded"
     /\ req.bodyOk
     /\ req.method = PingMethod
     /\ IsPortHeader(req.xport)
     /\ req.xmac = ""
     /\ globalMacAddress = "")
    => /\ resp.kind = "rpc"
       /\ resp.result = StringResult("pong")

\* C29: every RPC response carries the id and the host of its request, for
\* every method, known or not, with a result or with an error
C29_EchoIdHost ==
    Dispatched =>
        /\ resp.id = req.id
        /\ resp.host = req.host

\* C29 witness: an error response to an unknown method, with the request's
\* id 2 and host sw1
C29_Witness ==
    /\ Dispatched
    /\ req.method \notin {PowerGetMethod, PowerSetMethod, BootDeviceMethod,
                          PingMethod}
    /\ req.id = 2
    /\ req.host = "sw1"
    /\ resp.id = 2
    /\ resp.host = "sw1"
    /\ resp.status = StatusNotFound

\* params a boot.device request can be decoded from: no params or an object
\* whose device, if present, is a string
BootParamsWellFormed(p) ==
    /\ p.kind \in {"absent", "object"}
    /\ p.device # "#"

\* C30: in the SSH variant boot.device makes no backend call; with
\* well-formed params it answers HTTP 200 with a result that echoes device,
\* persistent and efiBoot, and with params that cannot be decoded it answers
\* with error code 400 and no result
C30_BootDeviceAcknowledged ==
    (SshDispatched /\ req.method = BootDeviceMethod) =>
        /\ calls = <<>>
        /\ BootParamsWellFormed(req.params) =>
             /\ resp.status = StatusOK
             /\ resp.errCode = 0
             /\ resp.result.set
             /\ resp.result.boot.device = req.params.device
             /\ resp.result.boot.persistent = req.params.persistent
             /\ resp.result.boot.efiBoot = req.params.efiBoot
        /\ ~BootParamsWellFormed(req.params) =>
             /\ resp.errCode = StatusBadRequest
             /\ resp.status = StatusBadRequest
             /\ ~resp.result.set

\* C30 witness: boot.device for pxe, persistent, acknowledged
C30_Witness ==
    /\ SshDispatched
    /\ req.method = BootDeviceMethod
    /\ req.params = BootParams("pxe", TRUE, FALSE)
    /\ resp.status = StatusOK
    /\ resp.result.boot.device = "pxe"
    /\ resp.result.boot.persistent
    /\ calls = <<>>

(***************************************************************************)
(* C31: a body that is no JSON request                                     *)
(***************************************************************************)

\* the request carries the headers (in the legacy handler, the route
\* values) its variant requires, with a port that is a number >= 1
HeadersValid ==
    /\ IsPortHeader(req.xport)
    /\ variant = "controller" => (req.xmac # "" \/ globalMacAddress # "")
    /\ variant = "legacy" => req.xmac # ""

\* C31: a request with valid headers whose body does not decode into a
\* request is answered with HTTP 400 and a JSON body carrying an error
\* message, and no backend call is made
C31_BadBody400 ==
    (phase = "responded" /\ HeadersValid /\ ~req.bodyOk) =>
        /\ resp.status = StatusBadRequest
        /\ resp.kind = "error"
        /\ resp.errMsg # ""
        /\ calls = <<>>

(***************************************************************************)
(* C32: the states a request passes through                                *)
(***************************************************************************)

\* the request was rejected at header validation: it went from Received to
\* Responded and was never Addressed or Dispatched
ShortCircuited == phase = "responded" /\ ~bodyRead

\* C32: when the handler of a request is over, exactly one response has
\* been written, a status code and a body; a request that fails header
\* validation is answered with a 400, its body unread and no backend
\* called; a backend call is made only for a request that got past header
\* and body validation, and at most one per request
C32_RequestStateMachine ==
    phase = "responded" =>
        /\ resp.kind # "none"
        /\ resp.status # 0
        /\ HeaderMissing => (ShortCircuited /\ resp.status = StatusBadRequest
                                /\ calls = <<>>)
        /\ ShortCircuited => (resp.kind = "error"
                                /\ resp.status = StatusBadRequest)
        /\ calls # <<>> => (bodyRead /\ req.bodyOk)
        /\ Len(calls) <= 1

(***************************************************************************)
(* C33, C35: the parser's leniency and its field positions                 *)
(***************************************************************************)

\* the lines after the separator that have at least 10 tokens
LongRows(lines) ==
    LET after == AfterSeparator(lines)
        RECURSIVE Keep(_)
        Keep(k) == IF k > Len(after) THEN <<>>
                   ELSE IF Len(after[k].tokens) >= 10
                   THEN <<after[k]>> \o Keep(k + 1)
                   ELSE Keep(k + 1)
    IN  Keep(1)

\* the text has a separator row and, after it, rows that are separated by
\* spaces and hold their class fields within their first ten tokens
Lenient(lines) ==
    /\ SeparatorAt(lines) # 0
    /\ LongRows(lines) # <<>>
    /\ \A k \in 1..Len(LongRows(lines)) :
          /\ LongRows(lines)[k].sep = " "
          /\ HasPrefix(LongRows(lines)[k].tokens[5], ClassPrefix)
                => Len(LongRows(lines)[k].tokens) >= 11

\* the text's total power limit: the number of a "Total Power Limit: n"
\* line, 0 when there is no such line or n is no numeral
LimitOf(lines) ==
    LET hits == {i \in 1..Len(lines) :
                    /\ Len(lines[i].tokens) = 4
                    /\ Join(SubSeq(lines[i].tokens, 1, 3), " ")
                          = LimitLabel \o <<":">>}
    IN  IF hits = {} THEN 0
        ELSE IntegerField(lines[CHOOSE i \in hits : \A j \in hits : i <= j]
                              .tokens[4])

ReturnedErrors == {ErrInsufficient, ErrNoDataSection, ErrNoPortData}

\* C35: no field access of a data row lies beyond the row's tokens: every
\* parse ends by returning a status or one of the parser's errors, and none
\* ends in an index-out-of-range panic
C35_NoIndexPanic ==
    prDone => /\ prOut.err # ErrIndexPanic
              /\ prOut.err \in ReturnedErrors \cup {""}


(***************************************************************************)
(* C36, C37: what setPower hands to UpdateDevice                           *)
(***************************************************************************)

\* a power-on or power-off request is over and its setPower call fetched
\* the device
PowerRouteFetched ==
    /\ phase = "responded"
    /\ route \in {"on", "off"}
    /\ calls # <<>>
    /\ calls[1].op = "GetDeviceByMAC"
    /\ calls[1].err = ""

\* the positions at which the override records of two devices differ
ChangedRecords(before, after) ==
    {k \in 1..Len(before) : after[k] # before[k]}

\* C36: setPower calls UpdateDevice only with a device in which it changed
\* the mode of some override record; with no record of the requested port
\* there is no UpdateDevice call
C36_WriteOnlyOnChange ==
    PowerRouteFetched =>
        \A i \in UpdateCalls(calls) :
            /\ FirstMatchIDX(calls[1].dev, Atoi(req.xport).n) # 0
            /\ ChangedRecords(calls[1].dev, calls[i].dev) # {}


\* C37: the device setPower hands to UpdateDevice is the device it fetched
\* but for the PoeMode of the override record of the requested port: the
\* records of other ports, the port index of every record, and the number
\* and order of the records are those of the fetched device
C37_OnlyPoeModeOfPort ==
    PowerRouteFetched =>
        \A i \in UpdateCalls(calls) :
            LET before == calls[1].dev
                after == calls[i].dev
                p == Atoi(req.xport).n
            IN  /\ Len(after) = Len(before)
                /\ \A k \in 1..Len(before) :
                      /\ after[k].PortIDX = before[k].PortIDX
                      /\ before[k].PortIDX # p => after[k] = before[k]
                /\ ChangedRecords(before, after)
                      \subseteq {FirstMatchIDX(before, p)}

\* C37 witness: a device with records of two ports was written back with
\* the mode of the requested port's record changed
C37_Witness ==
    /\ PowerRouteFetched
    /\ Len(calls[1].dev) = 2
    /\ \E i \in UpdateCalls(calls) :
          /\ ChangedRecords(calls[1].dev, calls[i].dev)
                = {FirstMatchIDX(calls[1].dev, Atoi(req.xport).n)}
          /\ \E k \in 1..2 : /\ calls[1].dev[k].PortIDX # Atoi(req.xport).n
                             /\ calls[1].dev[k].PoeMode # ModeOf(route = "on")


(***************************************************************************)
(* C34: the controller variant's reboot route                              *)
(***************************************************************************)

\* RebootHandler serves a request whose headers pass validateHeaders
RebootStep ==
    /\ phase = "idle"
    /\ route' = "reboot"
    /\ validateHeaders(req', globalMacAddress) = ""

\* C34: RebootHandler makes exactly one backend call, ExecuteCmd with the
\* command "power-cycle" for the request's MAC and, when the X-Port value
\* is a numeral, for that port; it makes no GetDeviceByMAC and no
\* UpdateDevice call and leaves the device's port overrides as they were
C34_OnePowerCycle ==
    [][RebootStep =>
          /\ Len(calls') = 1
          /\ calls'[1].op = "ExecuteCmd"
          /\ calls'[1].ret = "power-cycle"
          /\ calls'[1].state
                = GetMachineWithGlobal(req', globalMacAddress).MacAddress
          /\ Atoi(req'.xport).ok =>
                /\ ~calls'[1].nilPort
                /\ calls'[1].port = Atoi(req'.xport).n
          /\ \A i \in 1..Len(calls') :
                calls'[i].op \notin {"GetDeviceByMAC", "UpdateDevice"}
          /\ PortOverrides' = PortOverrides]_vars

\* C34 witness: a reboot request for port 1 of a device with override
\* records was answered with success after its one power-cycle command
C34_Witness ==
    /\ phase = "responded"
    /\ route = "reboot"
    /\ resp.kind = "status"
    /\ resp.status = StatusOK
    /\ req.xport = <<"1">>
    /\ PortOverrides # <<>>
    /\ Len(calls) = 1
    /\ calls[1].op = "ExecuteCmd"
    /\ calls[1].ret = "power-cycle"
    /\ calls[1].state = KnownMac
    /\ calls[1].port = 1


(***************************************************************************)
(* C38: the goroutine of executeCommand                                    *)
(***************************************************************************)

\* the call has returned and its goroutine has not ended yet
WorkerLeftBehind ==
    /\ exPc = "returned"
    /\ exWorker = "running"

\* C38: the goroutine's send on done can always proceed, whether or not the
\* caller is still in the select; when the caller has returned before the
\* goroutine ended, the session and the connection are closed under it, and
\* the goroutine ends: none stays behind for ever
C38_WorkerNeverStuck ==
    /\ [](exWorker = "running" => SendReady)
    /\ [](WorkerLeftBehind => (exSess = "closed" /\ exConn = "closed"))
    /\ (WorkerLeftBehind ~> exWorker = "exited")

\* C38 witness: the caller returned on cancellation while the remote command
\* hung, and the goroutine ended afterwards, its error left in done
C38_Witness ==
    /\ exPc = "returned"
    /\ exRet = ErrCancelled
    /\ exHung
    /\ exWorker = "exited"
    /\ exDone = <<ErrCommand>>
    /\ exSess = "closed"


(***************************************************************************)
(* C39: the Logins of one lazyClient.init                                  *)
(***************************************************************************)

\* a method of the controller client is called and runs init
InitRuns ==
    /\ lazyCall = NoLazyCall
    /\ lazyCall' # NoLazyCall

\* C39: one init attempts at most one Login: an init that has attempted the
\* Login of the once-guarded initialisation, whether that Login failed or
\* not, attempts no other before it returns
C39_OneLoginPerInit ==
    [][InitRuns => lazyOut'.logins <= 1]_vars

====
